---- MODULE Spec2Model ----
(***************************************************************************)
(* A model of the shared-memory IPC substrate of avsproxy: the heap        *)
(* allocator (heap_alloc, heap_free, split_heap_node) and the ring-buffer  *)
(* queue (queue_read, queue_write) of src/ipc/ipc_types.cpp.               *)
(*                                                                         *)
(* The heap arena is modelled as the set of node headers that were ever    *)
(* constructed in it, keyed by their offset.  A header that heap_free      *)
(* scrubbed (memset of its magic) stays in memory with its other fields    *)
(* as they were left: the code can still reach it through a stale offset.  *)
(* An assert() of the source that fails aborts the process in a build     *)
(* that checks assertions, and is skipped in a build with NDEBUG: the      *)
(* model starts in either build.  A header that payload bytes overwrote    *)
(* has no defined content, and a call that reads one halts the model.      *)
(*                                                                         *)
(* The queue is modelled byte for byte on a small ring, with the history   *)
(* of the bytes written and drained kept beside it.                        *)
(*                                                                         *)
(* The transport client (src/ipc/ipc_client.cpp) is modelled statement     *)
(* group by statement group: application threads inside send_async,        *)
(* send_sync and stop, and the receive thread, interleave at the points    *)
(* where the code takes or releases m_worker_mutex, writes the send queue  *)
(* or blocks.  The send queue is the byte ring above, holding frames.      *)
(*                                                                         *)
(* AVSProxy (src/avsproxy/avsproxy.cpp) is modelled twice: its run loop    *)
(* with the callbacks of the receive thread and the blocks of the heap,    *)
(* and its mutexes, lock by lock.  The slave is modelled by the            *)
(* constructor that attaches to the segment and by Session::run_loop with  *)
(* the handlers of AvisynthHost (src/avshost_native).  A last model holds  *)
(* one queue with its auto-reset event between writers and a reader.       *)
(***************************************************************************)
EXTENDS Integers, Sequences, FiniteSets, TLC

VARIABLES heap, live, hp_op, hp_steps, queue, q_in, q_drained, q_out, q_op,
          m_callbacks, m_transaction_id, m_kill_flag, m_recv_exception,
          m_recv_thread, m_worker_mutex, rcv, thr, calls, default_calls, hist,
          called, sync_result, mutex, sync_cond, send_sync,
          m_command_queue, m_runloop_response, m_runloop_response_received,
          m_active_request, m_remote_exit, run, recv, peer, heap_blocks, sent, leaks,
          held, todo, reg, shared, att, host, ev

hvars == <<heap, live, hp_op, hp_steps>>
qvars == <<queue, q_in, q_drained, q_out, q_op>>
cvars == <<m_callbacks, m_transaction_id, m_kill_flag, m_recv_exception,
           m_recv_thread, m_worker_mutex, rcv, thr, calls, default_calls, hist>>
cvars_but_thr == <<m_callbacks, m_transaction_id, m_kill_flag, m_recv_exception,
                   m_recv_thread, m_worker_mutex, rcv, calls, default_calls, hist>>
\* the locals of a call of send_sync, and where its two threads stand
svars == <<called, sync_result, mutex, sync_cond, send_sync>>
\* the members of AVSProxy that its run loop and its callbacks share, the
\* thread in runloop, the receive thread in the callbacks, the peer, the
\* blocks of the heap with their owner, the commands written to the peer and
\* the offsets that a destroyed command still held
avars == <<m_command_queue, m_runloop_response, m_runloop_response_received,
           m_active_request, m_remote_exit, run, recv, peer, heap_blocks, sent, leaks>>
\* the mutexes each thread of the master holds, the statements each has
\* still to execute, its locals, and the members the statements read
lvars == <<held, todo, reg, shared>>
\* the slave's attach to the segment, the session of the slave with its
\* Avisynth host, and a queue with its event between writers and a reader
mvars == <<att, host, ev>>
\* the variables of the models that follow the run loop
nvars == <<lvars, mvars>>
\* what the models of the heap, the queue and the transport leave alone
xvars == <<svars, avars, nvars>>
\* the transport state that the model of the run loop does not step
tvars == <<m_worker_mutex, m_recv_thread, rcv, thr, calls, default_calls, hist>>
vars == <<heap, live, hp_op, hp_steps, queue, q_in, q_drained, q_out, q_op,
          m_callbacks, m_transaction_id, m_kill_flag, m_recv_exception,
          m_recv_thread, m_worker_mutex, rcv, thr, calls, default_calls, hist,
          called, sync_result, mutex, sync_cond, send_sync,
          m_command_queue, m_runloop_response, m_runloop_response_received,
          m_active_request, m_remote_exit, run, recv, peer, heap_blocks, sent, leaks,
          held, todo, reg, shared, att, host, ev>>

---------------------------------------------------------------------------
(* Program constants *)

\* uint32_t arithmetic wraps.  The model checker's integers are 32-bit signed,
\* so the model's unsigned word is 30 bits wide: every offset and size of the
\* model is far below that, and a difference that goes negative wraps to a
\* value above every capacity, as it does in 32 bits.
UINT32_MOD == 1073741824

U32(x) == x % UINT32_MOD

\* ipc::NULL_OFFSET, the all-ones offset
NULL_OFFSET == 1073741823

\* sizeof(ipc::HeapNode): magic, prev_node_offset, next_node_offset, flags
HEAP_NODE_SIZE == 16

\* alignof(ipc::HeapNode)
HEAP_NODE_ALIGN == 16

\* ipc::HEAP_FLAG_ALLOCATED
HEAP_FLAG_ALLOCATED == 1

\* the smallest remainder heap_alloc splits off (4096U)
SPLIT_THRESHOLD == 4096

---------------------------------------------------------------------------
(* Bounds of the model *)

\* heap->size - heap->buffer_offset: the bytes of the arena
HeapCapacity == 12288

\* the most allocations the client holds at once
MaxLive == 4

\* the most allocate and deallocate calls of one run
MaxHeapOps == 9

\* the payload sizes the client asks for
AllocSizes == {16, 4080, 5000}

---------------------------------------------------------------------------
(* The heap *)

\* HeapNode{}: a fresh header is free and unlinked.  magic is "memz", "" once
\* heap_free has scrubbed it, or "junk" once payload bytes were written over it
HeapNodeInit == [magic |-> "memz", prev_node_offset |-> NULL_OFFSET,
                 next_node_offset |-> NULL_OFFSET, flags |-> 0]

\* the heap as the master lays it out: one free node spanning the arena.
\* ndebug: the build compiles assert() out.  aborted: an assert() failed and
\* ended the process.  wild: the code read a header made of payload bytes, and
\* what it does next is undefined.  fault: the first assert() condition that
\* did not hold, whether or not the build checks it
HeapInitial(hint, ndebug) ==
    [mem |-> (0 :> HeapNodeInit), buffer_usage |-> 0, last_free_offset |-> hint,
     ndebug |-> ndebug, aborted |-> FALSE, wild |-> FALSE, fault |-> "none"]

Halted(h) == h.aborted \/ h.wild

IsAllocated(node) == node.flags = HEAP_FLAG_ALLOCATED

\* node->next_node_offset == NULL_OFFSET ? capacity : node->next_node_offset
RealNext(node) ==
    IF node.next_node_offset = NULL_OFFSET THEN HeapCapacity ELSE node.next_node_offset

SetNode(h, off, node) ==
    [h EXCEPT !.mem = (off :> node) @@ h.mem]

\* assert(cond) where cond is false: the process aborts unless NDEBUG, the
\* writes made so far stay
AssertFail(h, why) ==
    [h EXCEPT !.fault = IF @ = "none" THEN why ELSE @, !.aborted = ~h.ndebug]

\* assert(check_fourcc(node->magic, "memz")) and the first read of the header
CheckMagic(h, off) ==
    LET h1 == IF h.mem[off].magic = "memz" THEN h ELSE AssertFail(h, "magic")
    IN IF ~h1.aborted /\ h.mem[off].magic = "junk" THEN [h1 EXCEPT !.wild = TRUE] ELSE h1

AlignUp(size) ==
    IF (size % HEAP_NODE_ALIGN) # 0
    THEN U32(size + (HEAP_NODE_ALIGN - (size % HEAP_NODE_ALIGN)))
    ELSE size

split_heap_node(h, node_offset, size) ==
    LET alloc_size == AlignUp(size)
        node == h.mem[node_offset]
        next_offset == U32(node_offset + alloc_size)
        next == [HeapNodeInit EXCEPT !.prev_node_offset = node_offset,
                                     !.next_node_offset = node.next_node_offset]
        h1 == SetNode(h, next_offset, next)
    IN SetNode(h1, node_offset, [node EXCEPT !.next_node_offset = next_offset])

\* heap->buffer_usage += node_real_next - node_offset (forward scan only)
Account(h, node_offset, node_real_next, account) ==
    IF account
    THEN [h EXCEPT !.buffer_usage = U32(@ + U32(node_real_next - node_offset))]
    ELSE h

\* the body of a scan loop of heap_alloc at a node that fits: split when the
\* remainder is large enough, mark allocated, account
AllocAt(h, node_offset, size, account) ==
    LET node == h.mem[node_offset]
        node_size == U32(RealNext(node) - node_offset)
        split == U32(node_size - size) >= SPLIT_THRESHOLD
        h1 == IF split THEN split_heap_node(h, node_offset, size) ELSE h
        n1 == h1.mem[node_offset]
        node_real_next == IF split THEN n1.next_node_offset ELSE RealNext(node)
        h2 == SetNode(h1, node_offset, [n1 EXCEPT !.flags = HEAP_FLAG_ALLOCATED])
    IN Account(h2, node_offset, node_real_next, account)

\* !(node->flags & HEAP_FLAG_ALLOCATED) && size < node_size
Fits(h, node_offset, size) ==
    LET node == h.mem[node_offset]
    IN ~IsAllocated(node) /\ size < U32(RealNext(node) - node_offset)

RECURSIVE alloc_forward(_, _, _)
alloc_forward(h, node_offset, size) ==
    LET h0 == CheckMagic(h, node_offset)
    IN IF Halted(h0)
       THEN [heap |-> h0, node |-> NULL_OFFSET, stop |-> "halt"]
       ELSE IF Fits(h0, node_offset, size)
       THEN [heap |-> AllocAt(h0, node_offset, size, TRUE), node |-> node_offset,
             stop |-> "forward"]
       ELSE IF h0.mem[node_offset].next_node_offset = NULL_OFFSET
       THEN [heap |-> h0, node |-> NULL_OFFSET, stop |-> "end"]
       ELSE alloc_forward(h0, h0.mem[node_offset].next_node_offset, size)

\* a reverse scan that finds nothing and leaves the hint where it began
alloc_reverse_moves_hint(h, node_offset, size) ==
    [heap |-> [h EXCEPT !.last_free_offset = node_offset], node |-> NULL_OFFSET,
     stop |-> "end"]

RECURSIVE alloc_reverse(_, _, _)
alloc_reverse(h, node_offset, size) ==
    LET h0 == CheckMagic(h, node_offset)
    IN IF Halted(h0)
       THEN [heap |-> h0, node |-> NULL_OFFSET, stop |-> "halt"]
       ELSE IF Fits(h0, node_offset, size)
       THEN [heap |-> AllocAt(h0, node_offset, size, FALSE), node |-> node_offset,
             stop |-> "reverse"]
       ELSE IF h0.mem[node_offset].prev_node_offset = NULL_OFFSET
       THEN [heap |-> h0, node |-> NULL_OFFSET, stop |-> "end"]
       ELSE alloc_reverse(h0, h0.mem[node_offset].prev_node_offset, size)

\* heap_alloc: the heap after the call, the node returned (NULL_OFFSET:
\* nullptr) and where the call ended: "forward" or "reverse" (the scan that
\* found the node), "end" (nullptr), "halt" (the process did not survive)
heap_alloc(h, n) ==
    LET null == [heap |-> h, node |-> NULL_OFFSET, stop |-> "end"]
    IN IF n > U32(HeapCapacity - HEAP_NODE_SIZE) THEN null
       ELSE LET size == U32(n + HEAP_NODE_SIZE)
            IN IF size > U32(HeapCapacity - h.buffer_usage) THEN null
               ELSE LET initial == IF h.last_free_offset # NULL_OFFSET
                                   THEN h.last_free_offset ELSE 0
                        fwd == alloc_forward(h, initial, size)
                    IN IF fwd.stop # "end" THEN fwd
                       ELSE IF fwd.heap.mem[initial].prev_node_offset = NULL_OFFSET
                       THEN [fwd EXCEPT !.stop = "end"]
                       ELSE alloc_reverse(fwd.heap, fwd.heap.mem[initial].prev_node_offset,
                                          size)

\* the forward merge loop of heap_free: absorb every free successor
RECURSIVE free_forward(_, _)
free_forward(h, node_offset) ==
    LET node == h.mem[node_offset]
    IN IF node.next_node_offset = NULL_OFFSET THEN h
       ELSE LET h0 == CheckMagic(h, node.next_node_offset)
                next == h0.mem[node.next_node_offset]
            IN IF Halted(h0) THEN h0
               ELSE IF IsAllocated(next) THEN h0
               ELSE LET h1 == SetNode(h0, node_offset,
                                  [node EXCEPT !.next_node_offset = next.next_node_offset])
                        h2 == SetNode(h1, node.next_node_offset, [next EXCEPT !.magic = ""])
                    IN free_forward(h2, node_offset)

\* the reverse merge loop of heap_free, then the update of the hint
RECURSIVE free_reverse(_, _)
free_reverse(h, node_offset) ==
    LET node == h.mem[node_offset]
    IN IF node.prev_node_offset = NULL_OFFSET
       THEN [h EXCEPT !.last_free_offset = node_offset]
       ELSE LET h0 == CheckMagic(h, node.prev_node_offset)
                prev == h0.mem[node.prev_node_offset]
            IN IF Halted(h0) THEN h0
               ELSE IF IsAllocated(prev)
               THEN [h0 EXCEPT !.last_free_offset = node_offset]
               ELSE LET h1 == SetNode(h0, node.prev_node_offset,
                                  [prev EXCEPT !.next_node_offset = node.next_node_offset])
                        h2 == SetNode(h1, node_offset, [node EXCEPT !.magic = ""])
                    IN free_reverse(h2, node.prev_node_offset)

\* the three assert()s that open heap_free
FreeAsserts(h, node_offset) ==
    LET node == h.mem[node_offset]
        node_real_size == U32(RealNext(node) - node_offset)
        h1 == CheckMagic(h, node_offset)
        h2 == IF Halted(h1) \/ IsAllocated(node) THEN h1 ELSE AssertFail(h1, "flags")
    IN IF Halted(h2) \/ node_real_size <= h.buffer_usage THEN h2 ELSE AssertFail(h2, "usage")

\* heap_free of the node at node_offset
heap_free(h, node_offset) ==
    LET node == h.mem[node_offset]
        node_real_size == U32(RealNext(node) - node_offset)
        h0 == FreeAsserts(h, node_offset)
    IN IF Halted(h0) THEN h0
       ELSE LET h1 == SetNode(h0, node_offset, [node EXCEPT !.flags = 0])
                h2 == [h1 EXCEPT !.buffer_usage = U32(@ - node_real_size)]
                h3 == free_forward(h2, node_offset)
            IN IF Halted(h3) THEN h3 ELSE free_reverse(h3, node_offset)

---------------------------------------------------------------------------
(* The client of the heap: IPCClient::allocate and IPCClient::deallocate *)

\* the header offsets whose bytes differ between two heaps
HeaderWrites(old, new) ==
    {o \in DOMAIN new.mem : o \notin DOMAIN old.mem \/ old.mem[o] # new.mem[o]}

\* the payload bytes of a block: [node + sizeof(HeapNode), node + sizeof(HeapNode) + n)
PayloadStart(b) == b.node + HEAP_NODE_SIZE

PayloadEnd(b) == b.node + HEAP_NODE_SIZE + b.n

\* some header written lies in the payload of one of the blocks
WritesInPayload(written, blocks) ==
    \E o \in written : \E b \in blocks :
        o + HEAP_NODE_SIZE > PayloadStart(b) /\ o < PayloadEnd(b)

\* the offsets the code can still reach: the first node, the hint, the blocks
\* the client holds, and what their prev and next offsets lead to
RECURSIVE Reachable(_, _)
Reachable(h, seen) ==
    LET more == {o \in DOMAIN h.mem :
                    \E s \in seen : s \in DOMAIN h.mem /\
                        (h.mem[s].next_node_offset = o \/ h.mem[s].prev_node_offset = o)}
    IN IF more \subseteq seen THEN seen ELSE Reachable(h, seen \cup more)

\* memory no offset leads to is not part of the state
Forget(h, blocks) ==
    LET roots == {0} \cup ({h.last_free_offset} \cap DOMAIN h.mem) \cup {b.node : b \in blocks}
        keep == Reachable(h, roots)
    IN [h EXCEPT !.mem = [o \in keep |-> h.mem[o]]]

\* the client fills the payload it was given: a header that lies in it is
\* payload bytes from then on
Clobber(h, b) ==
    [h EXCEPT !.mem = [o \in DOMAIN h.mem |->
        IF o + HEAP_NODE_SIZE > PayloadStart(b) /\ o < PayloadEnd(b)
        THEN [h.mem[o] EXCEPT !.magic = "junk"] ELSE h.mem[o]]]

\* IPCHeapFull(size_t alloc, size_t free): what alloc() and free() return
IPCHeapFull(alloc, free) == [alloc |-> alloc, free |-> free]

\* no exception
NoError == [alloc |-> 0, free |-> 0]

\* how far the run has followed "allocate(n) until it fails, free one block,
\* allocate(n)": "fill" (only allocate(n) so far, all returned), "full" (then
\* one failed), "freed" (then one block was freed), "recovered" or "stuck"
\* (then allocate(n) returned or failed), "off" (another run)
RunAfter(kind, n) ==
    LET same == hp_op.kind = "init" \/ hp_op.n = n
    IN IF hp_op.run = "fill" /\ same /\ kind = "alloc" THEN "fill"
       ELSE IF hp_op.run = "fill" /\ hp_op.kind = "alloc" /\ same /\ kind = "allocfail"
       THEN "full"
       ELSE IF hp_op.run = "full" /\ kind = "free" THEN "freed"
       ELSE IF hp_op.run = "freed" /\ same /\ kind = "alloc" THEN "recovered"
       ELSE IF hp_op.run = "freed" /\ same /\ kind = "allocfail" THEN "stuck"
       ELSE "off"

\* Heap{}'s last_free_offset is not read before the first heap_free sets it,
\* except to pick the first node when it is null; the build is either one
HeapInit ==
    /\ heap \in {HeapInitial(hint, nd) : hint \in {NULL_OFFSET, 0}, nd \in BOOLEAN}
    /\ live = {}
    /\ hp_op = [kind |-> "init", scan |-> "none", clobber |-> FALSE, n |-> 0,
                err |-> NoError, run |-> "fill"]
    /\ hp_steps = 0

\* the heap before any call
HeapIdle ==
    /\ heap = HeapInitial(NULL_OFFSET, FALSE)
    /\ live = {}
    /\ hp_op = [kind |-> "init", scan |-> "none", clobber |-> FALSE, n |-> 0,
                err |-> NoError, run |-> "fill"]
    /\ hp_steps = 0

\* allocate(n) that returns a block, which the client then fills
Allocate(n) ==
    /\ ~Halted(heap)
    /\ hp_steps < MaxHeapOps
    /\ hp_steps' = hp_steps + 1
    /\ Cardinality(live) < MaxLive
    /\ LET r == heap_alloc(heap, n)
           b == [node |-> r.node, n |-> n]
       IN /\ r.stop \in {"forward", "reverse"}
          /\ live' = live \cup {b}
          /\ heap' = Forget(Clobber(r.heap, b), live')
          /\ hp_op' = [kind |-> "alloc", scan |-> r.stop,
                       clobber |-> WritesInPayload(HeaderWrites(heap, r.heap), live),
                       n |-> n, err |-> NoError,
                       run |-> RunAfter("alloc", n)]
    /\ UNCHANGED qvars
    /\ UNCHANGED cvars
    /\ UNCHANGED xvars

\* allocate(n) that raises IPCHeapFull{capacity - buffer_usage, size}, or that
\* the process does not survive
AllocateFail(n) ==
    /\ ~Halted(heap)
    /\ hp_steps < MaxHeapOps
    /\ hp_steps' = hp_steps + 1
    /\ Cardinality(live) < MaxLive
    /\ LET r == heap_alloc(heap, n)
       IN /\ r.stop \notin {"forward", "reverse"}
          /\ heap' = r.heap
          /\ live' = live
          /\ hp_op' = [kind |-> "allocfail", scan |-> "none",
                       clobber |-> WritesInPayload(HeaderWrites(heap, r.heap), live),
                       n |-> n,
                       err |-> IF Halted(r.heap) THEN NoError
                               ELSE IPCHeapFull(U32(HeapCapacity - r.heap.buffer_usage), n),
                       run |-> IF Halted(r.heap) THEN "off" ELSE RunAfter("allocfail", n)]
    /\ UNCHANGED qvars
    /\ UNCHANGED cvars
    /\ UNCHANGED xvars

\* deallocate(ptr) of a block allocate returned and that was not yet freed:
\* a header without its magic raises "pointer not a heap block" before heap_free
Deallocate(b) ==
    /\ ~Halted(heap)
    /\ hp_steps < MaxHeapOps
    /\ hp_steps' = hp_steps + 1
    /\ b \in live
    /\ live' = live \ {b}
    /\ LET ok == heap.mem[b.node].magic = "memz"
           h1 == IF ok THEN heap_free(heap, b.node) ELSE heap
       IN /\ heap' = Forget(h1, live')
          /\ hp_op' = [kind |-> IF ok THEN "free" ELSE "badptr", scan |-> "none",
                       clobber |-> WritesInPayload(HeaderWrites(heap, h1), live'),
                       n |-> b.n, err |-> NoError,
                       run |-> IF ok /\ ~Halted(h1) THEN RunAfter("free", b.n) ELSE "off"]
    /\ UNCHANGED qvars
    /\ UNCHANGED cvars
    /\ UNCHANGED xvars

---------------------------------------------------------------------------
(* Properties of the heap *)

\* the offsets of the nodes met from the first node along next_node_offset
RECURSIVE ForwardList(_, _)
ForwardList(h, off) ==
    IF h.mem[off].next_node_offset = NULL_OFFSET THEN <<off>>
    ELSE <<off>> \o ForwardList(h, h.mem[off].next_node_offset)

\* the offsets of the nodes met from a node back along prev_node_offset,
\* in ascending order of the walk's end
RECURSIVE BackwardList(_, _)
BackwardList(h, off) ==
    IF h.mem[off].prev_node_offset = NULL_OFFSET THEN <<off>>
    ELSE BackwardList(h, h.mem[off].prev_node_offset) \o <<off>>

Last(seq) == seq[Len(seq)]

RECURSIVE SumSeq(_)
SumSeq(seq) == IF seq = <<>> THEN 0 ELSE seq[1] + SumSeq(Tail(seq))

\* the real sizes (header included) of the allocated nodes of the list
AllocatedSizes(h) ==
    LET nodes == ForwardList(h, 0)
    IN [i \in 1..Len(nodes) |->
          IF IsAllocated(h.mem[nodes[i]]) THEN RealNext(h.mem[nodes[i]]) - nodes[i] ELSE 0]

\* C1: after every call that returned, buffer_usage equals the sum of the
\* real sizes of the allocated nodes, whichever scan found the node
C1_UsageIsAllocatedSum ==
    ~Halted(heap) => heap.buffer_usage = SumSeq(AllocatedSizes(heap))

\* C2: after every call that returned, the list is strictly ordered by
\* offset and each successor's prev_node_offset is its predecessor's offset,
\* so that the walk back from the last node meets the nodes of the walk forward
C2_ListConsistent ==
    ~Halted(heap) =>
    LET nodes == ForwardList(heap, 0)
    IN /\ \A i \in 1..(Len(nodes) - 1) :
             /\ nodes[i] < nodes[i + 1]
             /\ heap.mem[nodes[i + 1]].prev_node_offset = nodes[i]
       /\ BackwardList(heap, Last(nodes)) = nodes

\* C3: after a heap_free that returned, no two neighbours of the list are both free
C3_NoAdjacentFree ==
    (hp_op.kind = "free" /\ ~Halted(heap)) =>
        LET nodes == ForwardList(heap, 0)
        IN \A i \in 1..(Len(nodes) - 1) :
              IsAllocated(heap.mem[nodes[i]]) \/ IsAllocated(heap.mem[nodes[i + 1]])

\* C4: no header heap_alloc or heap_free visits lacks its magic, and the hint
\* never designates a scrubbed header
C4_MagicAlwaysValid ==
    /\ heap.fault # "magic"
    /\ (~Halted(heap) /\ heap.last_free_offset # NULL_OFFSET) =>
           heap.mem[heap.last_free_offset].magic = "memz"

\* C5: the payloads of the live blocks lie in the arena and are pairwise
\* disjoint, and no call writes a header inside a live payload
C5_PayloadsDisjoint ==
    ~Halted(heap) =>
    /\ \A b \in live : PayloadEnd(b) <= HeapCapacity
    /\ \A b1, b2 \in live :
          b1 # b2 => (PayloadEnd(b1) <= PayloadStart(b2) \/ PayloadEnd(b2) <= PayloadStart(b1))
    /\ ~hp_op.clobber

\* C6: once every block was handed back, the last call has returned and the
\* heap is one free node at offset 0 with null next and prev, no usage, and
\* the hint on that node
C6_FreeAllCollapses ==
    (live = {} /\ hp_op.kind \in {"free", "badptr"}) =>
        /\ ~Halted(heap)
        /\ heap.mem[0] = HeapNodeInit
        /\ heap.buffer_usage = 0
        /\ heap.last_free_offset = 0

\* C28: an allocation that fails (the size exceeds the arena or the free
\* capacity, or neither scan finds a node) leaves the heap as it was: the
\* headers of the list with their flags, buffer_usage and last_free_offset
C28_FailedAllocLeavesHeap ==
    [][(hp_op'.kind = "allocfail" /\ ~Halted(heap')) =>
          /\ heap'.mem = heap.mem
          /\ heap'.buffer_usage = heap.buffer_usage
          /\ heap'.last_free_offset = heap.last_free_offset]_vars

\* C28's case: an allocation failed although the free capacity admits the
\* largest request, so that both scans ran over a list with allocated and
\* free nodes and found nothing
C28_Witness ==
    /\ hp_op.kind = "allocfail" /\ ~Halted(heap)
    /\ live # {}
    /\ heap.last_free_offset # NULL_OFFSET
    /\ heap.mem[heap.last_free_offset].prev_node_offset # NULL_OFFSET
    /\ \A n \in AllocSizes : n + HEAP_NODE_SIZE <= HeapCapacity - heap.buffer_usage

\* C29: the heap-full error of a failed allocate(n) reports n as the
\* requested size, alloc(), and capacity - buffer_usage as the available
\* bytes, free()
C29_HeapFullReportsSizes ==
    (hp_op.kind = "allocfail" /\ ~Halted(heap)) =>
        /\ hp_op.err.alloc = hp_op.n
        /\ hp_op.err.free = HeapCapacity - heap.buffer_usage

\* C30: after allocate(n) was called until it failed and one of the blocks
\* was freed, last_free_offset designates a free node, and the next
\* allocate(n) returns a block, whatever n and whichever block was freed
C30_RecoversAfterFree ==
    /\ hp_op.run # "stuck"
    /\ (hp_op.run = "freed") =>
          /\ heap.last_free_offset \in DOMAIN heap.mem
          /\ heap.mem[heap.last_free_offset].magic = "memz"
          /\ ~IsAllocated(heap.mem[heap.last_free_offset])

---------------------------------------------------------------------------
(* The ring-buffer queue *)

\* queue->size - queue->buffer_offset: the bytes of the ring
QueueCapacity == 4

\* the most bytes written to the queue in one run
MaxQueueBytes == 6
\* writes between two drains
MaxBurst == 3

\* the values of a byte
Bytes == {0, 1}

\* Queue{} in freshly mapped (zeroed) shared memory
QueueInitial ==
    [buf |-> [i \in 0..(QueueCapacity - 1) |-> 0],
     buffer_usage |-> 0, read_pos |-> 0, write_pos |-> 0]

\* std::memcpy out of the ring: len bytes from index pos
CopyOut(q, pos, len) == [i \in 1..len |-> q.buf[pos + i - 1]]

\* std::memcpy into the ring: the bytes of src at index pos
CopyIn(buf, pos, src) ==
    [i \in DOMAIN buf |-> IF i >= pos /\ i < pos + Len(src) THEN src[i - pos + 1] ELSE buf[i]]

\* size <= capacity - pos: the copy ends at or before the end of the ring
FitsBeforeEnd_NoWrap(size, pos) == size <= QueueCapacity

FitsBeforeEnd(size, pos) == size <= U32(QueueCapacity - pos)

\* queue->read_pos = queue->buffer_usage - read_first
read_wrap_pos_stale(usage, read_first) == read_first

read_wrap_pos(usage, read_first) == U32(usage - read_first)

\* queue->write_pos = size - write_first
write_wrap_pos_whole(size, write_first) == size

write_wrap_pos(size, write_first) == U32(size - write_first)

\* buf = offset_to_pointer(buf, write_first): the bytes left for the second copy
write_rest_not_advanced(src, write_first) == SubSeq(src, 1, Len(src) - write_first)

write_rest(src, write_first) == SubSeq(src, write_first + 1, Len(src))

\* queue_read: the queue after the call, the caller's buffer, and whether the
\* copy was split at the end of the ring
queue_read(q) ==
    IF FitsBeforeEnd(q.buffer_usage, q.read_pos)
    THEN [queue |-> [q EXCEPT !.read_pos = U32(@ + q.buffer_usage), !.buffer_usage = 0],
          buf |-> CopyOut(q, q.read_pos, q.buffer_usage),
          split |-> FALSE]
    ELSE LET read_first == U32(QueueCapacity - q.read_pos)
         IN [queue |-> [q EXCEPT !.read_pos = read_wrap_pos(q.buffer_usage, read_first),
                                 !.buffer_usage = 0],
             buf |-> CopyOut(q, q.read_pos, read_first)
                       \o CopyOut(q, 0, U32(q.buffer_usage - read_first)),
             split |-> TRUE]

\* queue_write of the bytes src, which fit (the assert of the source)
queue_write(q, src) ==
    LET size == Len(src)
    IN IF FitsBeforeEnd(size, q.write_pos)
       THEN [queue |-> [q EXCEPT !.buf = CopyIn(@, q.write_pos, src),
                                 !.write_pos = U32(@ + size),
                                 !.buffer_usage = U32(@ + size)],
             split |-> FALSE]
       ELSE LET write_first == U32(QueueCapacity - q.write_pos)
                first == SubSeq(src, 1, write_first)
                rest == write_rest(src, write_first)
            IN [queue |-> [q EXCEPT !.buf = CopyIn(CopyIn(@, q.write_pos, first), 0, rest),
                                    !.write_pos = write_wrap_pos(size, write_first),
                                    !.buffer_usage = U32(@ + size)],
                split |-> TRUE]

\* q_in: every byte written so far; q_drained: every byte drained so far;
\* q_out: the buffer of the last drain; q_op: the last call, the position it
\* started at, whether it split its copy, and the writes since the last drain
QueueInit ==
    /\ queue = QueueInitial
    /\ q_in = <<>>
    /\ q_drained = <<>>
    /\ q_out = <<>>
    /\ q_op = [kind |-> "init", size |-> 0, split |-> FALSE, pos |-> 0, msgs |-> 0]

Messages == UNION {[1..n -> Bytes] : n \in 0..QueueCapacity}

\* the sender's queue_write under the send mutex, of a message that fits
QueueWrite(msg) ==
    /\ Len(msg) <= U32(QueueCapacity - queue.buffer_usage)
    /\ Len(q_in) + Len(msg) <= MaxQueueBytes
    /\ (q_op.kind = "write") => (q_op.msgs < MaxBurst)
    /\ LET r == queue_write(queue, msg)
       IN /\ queue' = r.queue
          /\ q_op' = [kind |-> "write", size |-> Len(msg), split |-> r.split,
                      pos |-> queue.write_pos,
                      msgs |-> IF q_op.kind = "write" THEN q_op.msgs + 1 ELSE 1]
    /\ q_in' = q_in \o msg
    /\ UNCHANGED <<q_drained, q_out>>
    /\ UNCHANGED hvars
    /\ UNCHANGED xvars
    /\ UNCHANGED cvars

\* the receive thread's drain under the recv mutex
QueueRead ==
    /\ LET r == queue_read(queue)
       IN /\ queue' = r.queue
          /\ q_out' = r.buf
          /\ q_drained' = q_drained \o r.buf
          /\ q_op' = [kind |-> "read", size |-> queue.buffer_usage, split |-> r.split,
                      pos |-> queue.read_pos,
                      msgs |-> IF q_op.kind = "write" THEN q_op.msgs ELSE 0]
    /\ UNCHANGED q_in
    /\ UNCHANGED hvars
    /\ UNCHANGED xvars
    /\ UNCHANGED cvars

---------------------------------------------------------------------------
(* Properties of the queue *)

IsPrefix(s, t) == Len(s) <= Len(t) /\ SubSeq(t, 1, Len(s)) = s

\* the bytes written and not yet drained
Undrained == SubSeq(q_in, Len(q_drained) + 1, Len(q_in))

\* C7: a drain returns the bytes of the writes since the last drain, in write
\* order, and leaves buffer_usage 0; over write and drain cycles the drained
\* bytes are the written bytes, none lost, repeated or reordered
C7_QueueFifo ==
    /\ IsPrefix(q_drained, q_in)
    /\ IsPrefix(q_out, q_in) \/ q_out = SubSeq(q_drained, Len(q_drained) - Len(q_out) + 1,
                                                Len(q_drained))
    /\ q_op.kind = "read" => (queue.buffer_usage = 0 /\ q_drained = q_in
                               /\ Len(q_out) = q_op.size)

\* C7's case: a second drain cycle that returned two messages or more
C7_Witness ==
    /\ q_op.kind = "read" /\ q_op.msgs >= 2 /\ Len(q_out) >= 2
    /\ Len(q_drained) > Len(q_out)
    /\ \E i, j \in 1..Len(q_out) : q_out[i] # q_out[j]

\* C8: from every reachable state the next queue_read returns the bytes
\* written since the last drain, byte for byte, split copies included
C8_QueueWrapReadBack ==
    queue_read(queue).buf = Undrained

\* C8's case: a message that straddled the end of the ring when written, and
\* that the next read copies in two parts
C8_Witness ==
    /\ q_op.kind = "write" /\ q_op.split /\ q_op.pos \in 1..(QueueCapacity - 1)
    /\ queue_read(queue).split
    /\ \E i, j \in 1..Len(Undrained) : Undrained[i] # Undrained[j]

\* C9 as stated: (write_pos - read_pos) mod capacity == buffer_usage
C9_PosDifferenceIsUsage ==
    /\ 0 <= queue.buffer_usage /\ queue.buffer_usage <= QueueCapacity
    /\ (queue.write_pos - queue.read_pos) % QueueCapacity = queue.buffer_usage

\* C9 as amended: 0 <= buffer_usage <= capacity, and write_pos - read_pos and
\* buffer_usage agree modulo capacity (a full queue has a difference of 0)
C9_PosDifferenceIsUsageModCapacity ==
    /\ 0 <= queue.buffer_usage /\ queue.buffer_usage <= QueueCapacity
    /\ (queue.write_pos - queue.read_pos) % QueueCapacity
           = queue.buffer_usage % QueueCapacity

\* C9's case: the queue is completely full after a write
C9_Witness ==
    q_op.kind = "write" /\ q_op.size > 0 /\ queue.buffer_usage = QueueCapacity

\* C10 as stated: read_pos and write_pos are indices of the buffer
C10_PositionsAreIndices ==
    /\ 0 <= queue.read_pos /\ queue.read_pos < QueueCapacity
    /\ 0 <= queue.write_pos /\ queue.write_pos < QueueCapacity

\* C10 as amended: read_pos and write_pos lie in 0..capacity, capacity itself
\* (one past the last index) included
C10_PositionsWithinCapacity ==
    /\ 0 <= queue.read_pos /\ queue.read_pos <= QueueCapacity
    /\ 0 <= queue.write_pos /\ queue.write_pos <= QueueCapacity

\* C10's case: a read that ended exactly at the end of the buffer, after a
\* write that did
C10_Witness ==
    /\ q_op.kind = "read" /\ q_op.size > 0
    /\ queue.read_pos = QueueCapacity /\ queue.write_pos = QueueCapacity

---------------------------------------------------------------------------
(* The transport client *)

\* the modulus of the transaction counter, scaled down from 2^32
IdSpace == 3

\* ipc_client::INVALID_TRANSACTION, the all-ones id
INVALID_TRANSACTION == IdSpace - 1

\* sizeof(ipc::Command) in cells of the ring: the envelope is one cell
COMMAND_SIZE == 1

\* the application threads
Threads == {1, 2}

\* calls of send_async and send_sync in one run
MaxSends == 3
\* the same with the receive thread in the run
MaxClientSends == 2
\* the application thread of the runs with the receive thread
ClientThread == 1
\* wake-ups of the receive thread by the peer, and cells of one wake-up
MaxWakes == 1
MaxWakeCells == 1
\* direct calls of stop in one run
MaxStops == 2

\* the serialized sizes of the commands the application sends
SendSizes == {1, 2}

\* a cell of a queue that holds frames: an envelope (magic "cmdx") or another
\* byte.  sn names the call of send_async that serialized it (0: the peer)
Cell(magic, size, transaction_id, response_id, type, sn) ==
    [magic |-> magic, size |-> size, transaction_id |-> transaction_id,
     response_id |-> response_id, type |-> type, sn |-> sn]

ZeroCell == Cell("", 0, 0, 0, "", 0)

\* Command::serialize: the envelope, then the payload
Serialize(size, transaction_id, sn) ==
    <<Cell("cmdx", size, transaction_id, INVALID_TRANSACTION, "ACK", sn)>>
        \o [i \in 1..(size - 1) |-> Cell("", 0, 0, 0, "payload", sn)]

\* the envelopes the peer sends: replies and unsolicited commands, a reply of
\* an unknown type, a frame whose magic is wrong, a reply with a payload
PeerCells ==
    {Cell("cmdx", 1, INVALID_TRANSACTION, r, "ACK", 0) : r \in 0..(IdSpace - 1)}
        \cup {Cell("cmdx", 1, INVALID_TRANSACTION, 0, "unknown", 0),
              Cell("junk", 1, INVALID_TRANSACTION, 0, "ACK", 0),
              Cell("cmdx", 2, INVALID_TRANSACTION, 0, "ACK", 0)}

\* cells of one drain in the runs that follow the parse loop through a drain
MaxDrainCells == 2

\* the envelopes of those runs: the envelopes above, an envelope of an unknown
\* type with a payload, envelopes that declare less than an envelope, and one
\* that declares more than a drain holds
DrainCells ==
    PeerCells
        \cup {Cell("cmdx", 2, INVALID_TRANSACTION, 0, "unknown", 0),
              Cell("cmdx", 0, INVALID_TRANSACTION, 0, "unknown", 0),
              Cell("cmdx", 0, INVALID_TRANSACTION, 0, "ACK", 0),
              Cell("cmdx", MaxDrainCells + 1, INVALID_TRANSACTION, 0, "ACK", 0)}

\* command_buf with a given envelope at its head and left cells in all.  The
\* receive loop looks at the head and the length only, so the model keeps the
\* length and draws each head when the loop reaches it
BufOf(cell, left) == <<cell>> \o [i \in 1..(left - 1) |-> ZeroCell]

\* a parse that trusts a declared size below the envelope
ParseHead_any_size(buf) ==
    IF Len(buf) < COMMAND_SIZE THEN "short"
    ELSE IF buf[1].magic # "cmdx" THEN "magic"
    ELSE IF buf[1].size > Len(buf) THEN "bounds"
    ELSE IF buf[1].type = "unknown" THEN "unknown"
    ELSE "command"

\* the checks of the frame at the head of command_buf, and deserialize_command:
\* "short", "magic", "bounds" (the three throws of the loop), "overrun" (the
\* throw of deserialize_command for a size below the envelope), "unknown"
\* (deserialization returned null) or "command"
ParseHead(buf) ==
    IF Len(buf) < COMMAND_SIZE THEN "short"
    ELSE IF buf[1].magic # "cmdx" THEN "magic"
    ELSE IF buf[1].size > Len(buf) THEN "bounds"
    ELSE IF buf[1].size < COMMAND_SIZE THEN "overrun"
    ELSE IF buf[1].type = "unknown" THEN "unknown"
    ELSE "command"

\* pos += raw_command->size
AfterHead(buf) == SubSeq(buf, buf[1].size + 1, Len(buf))

\* m_callbacks: the call whose callback is stored under each id, 0 for none
NoCallbacks == [id \in 0..(IdSpace - 1) |-> 0]

Pending(cbs) == {id \in DOMAIN cbs : cbs[id] # 0}

IdleThread ==
    [pc |-> "idle", op |-> "none", cb |-> FALSE, sync |-> FALSE,
     id |-> INVALID_TRANSACTION, sn |-> 0, size |-> 0, nested |-> FALSE,
     result |-> "none", path |-> "none"]

\* the client after construction.
\* rcv: the receive thread (pc "none": not started) with the cells left in
\* command_buf, the envelope it parsed last in this turn of the parse loop
\* and the response_id of the command it routes; thr: the application
\* threads; calls[sn]: what the callback of call sn was invoked with, in
\* order; default_calls: how often the default callback got a command and
\* nullptr; hist: counters of the run, the thread of each call, the calls
\* with a callback, the frames the peer dispatched
ClientInit ==
    /\ m_callbacks = NoCallbacks
    /\ m_transaction_id = 0
    /\ m_kill_flag = FALSE
    /\ m_recv_exception = FALSE
    /\ m_recv_thread = FALSE
    /\ m_worker_mutex = 0
    /\ rcv = [pc |-> "none", left |-> 0, event |-> FALSE, head |-> ZeroCell,
              response_id |-> INVALID_TRANSACTION]
    /\ thr = [t \in Threads |-> IdleThread]
    /\ calls = <<>>
    /\ default_calls = [command |-> 0, null |-> 0]
    /\ hist = [aborted |-> FALSE, sends |-> 0, wakes |-> 0, stops |-> 0,
               overflow |-> "none", cbs |-> {}, owner |-> <<>>,
               peer_got |-> <<>>, peer_error |-> "none"]

\* the send queue of the client: a ring of cells
FrameQueueInit ==
    /\ queue = [QueueInitial EXCEPT !.buf = [i \in 0..(QueueCapacity - 1) |-> ZeroCell]]
    /\ q_in = <<>>
    /\ q_drained = <<>>
    /\ q_out = <<>>
    /\ q_op = [kind |-> "init", size |-> 0, split |-> FALSE, pos |-> 0, msgs |-> 0]

Running == ~hist.aborted

\* no thread is inside a direct call of stop
NoStopInProgress == \A u \in Threads : ~(thr[u].op = "stop" /\ thr[u].pc # "idle")

\* a call returns or throws: its locals are gone
Return(t, result, path) ==
    [thr EXCEPT ![t] = [IdleThread EXCEPT !.op = thr[t].op, !.result = result,
                                          !.path = path]]

\* a callback that is run twice
Invoke_twice(cs, sn, arg) == [cs EXCEPT ![sn] = Append(Append(@, arg), arg)]

\* the callback of call sn is invoked with arg
Invoke(cs, sn, arg) == [cs EXCEPT ![sn] = Append(@, arg)]

\* send_async(command, cb) and send_sync(command) are entered: the call is
\* numbered, and a call with a callback goes on to reserve an id
SendAsync(t, cb, sync, size) ==
    /\ Running /\ NoStopInProgress
    /\ thr[t].pc = "idle"
    /\ hist.sends < MaxSends
    /\ sync => cb
    /\ LET sn == hist.sends + 1
       IN /\ thr' = [thr EXCEPT ![t] = [IdleThread EXCEPT
                        !.pc = IF cb THEN "id" ELSE "lock",
                        !.op = IF sync THEN "send_sync" ELSE "send_async",
                        !.cb = cb, !.sync = sync, !.sn = sn, !.size = size]]
          /\ calls' = Append(calls, <<>>)
          /\ hist' = [hist EXCEPT !.sends = sn, !.owner = Append(@, t),
                                  !.cbs = IF cb THEN @ \cup {sn} ELSE @]
    /\ UNCHANGED <<m_callbacks, m_transaction_id, m_kill_flag, m_recv_exception,
                   m_recv_thread, m_worker_mutex, rcv, default_calls>>
    /\ UNCHANGED hvars
    /\ UNCHANGED xvars
    /\ UNCHANGED qvars

\* next_transaction_id: one turn of the loop, transaction_id = m_transaction_id++
next_transaction_id(t) ==
    /\ Running
    /\ thr[t].pc = "id"
    /\ m_transaction_id' = (m_transaction_id + 1) % IdSpace
    /\ thr' = IF m_transaction_id = INVALID_TRANSACTION
              THEN thr
              ELSE [thr EXCEPT ![t].id = m_transaction_id, ![t].pc = "lock"]
    /\ UNCHANGED <<m_callbacks, m_kill_flag, m_recv_exception, m_recv_thread,
                   m_worker_mutex, rcv, calls, default_calls, hist>>
    /\ UNCHANGED hvars
    /\ UNCHANGED xvars
    /\ UNCHANGED qvars

\* m_callbacks[transaction_id] = std::move(cb)
InsertCallback(cbs, id, sn) == [cbs EXCEPT ![id] = sn]

\* send_async under m_worker_mutex with a stored exception: stop() is called
\* with the mutex held
SendAsyncStored(t) ==
    /\ Running
    /\ thr[t].pc = "lock"
    /\ m_worker_mutex = 0
    /\ m_recv_exception
    /\ m_worker_mutex' = t
    /\ thr' = [thr EXCEPT ![t].pc = "stop", ![t].nested = TRUE]
    /\ UNCHANGED <<m_callbacks, m_transaction_id, m_kill_flag, m_recv_exception,
                   m_recv_thread, rcv, calls, default_calls, hist>>
    /\ UNCHANGED hvars
    /\ UNCHANGED xvars
    /\ UNCHANGED qvars

\* the outcomes of a lock of a std::mutex by the thread that owns it, which
\* has no defined behaviour: the thread blocks on itself, std::system_error is
\* raised, or the lock is granted once more
RelockOutcomes == {"blocks", "system_error", "granted"}

\* send_async under m_worker_mutex with the kill flag set: cb(nullptr) and
\* return.  The callback of send_sync locks the mutex its caller holds: the
\* caller blocks in it, or the error leaves send_sync, or the callback stores
\* nullptr and send_sync returns it
SendAsyncKilled(t, relock) ==
    /\ Running
    /\ thr[t].pc = "lock"
    /\ m_worker_mutex = 0
    /\ ~m_recv_exception
    /\ m_kill_flag
    /\ calls' = IF thr[t].cb THEN Invoke(calls, thr[t].sn, "null") ELSE calls
    /\ thr' = IF ~thr[t].sync THEN Return(t, "ok", "killed")
              ELSE IF relock = "blocks"
              THEN [thr EXCEPT ![t].pc = "relock", ![t].path = "killed"]
              ELSE IF relock = "system_error" THEN Return(t, "system_error", "killed")
              ELSE Return(t, "null", "killed")
    /\ UNCHANGED <<m_callbacks, m_transaction_id, m_kill_flag, m_recv_exception,
                   m_recv_thread, m_worker_mutex, rcv, default_calls, hist>>
    /\ UNCHANGED hvars
    /\ UNCHANGED xvars
    /\ UNCHANGED qvars

\* send_async under m_worker_mutex on a live client: the callback is stored
SendAsyncInsert(t) ==
    /\ Running
    /\ thr[t].pc = "lock"
    /\ m_worker_mutex = 0
    /\ ~m_recv_exception
    /\ ~m_kill_flag
    /\ m_callbacks' = IF thr[t].cb THEN InsertCallback(m_callbacks, thr[t].id, thr[t].sn)
                      ELSE m_callbacks
    /\ thr' = [thr EXCEPT ![t].pc = "write"]
    /\ UNCHANGED <<m_transaction_id, m_kill_flag, m_recv_exception, m_recv_thread,
                   m_worker_mutex, rcv, calls, default_calls, hist>>
    /\ UNCHANGED hvars
    /\ UNCHANGED xvars
    /\ UNCHANGED qvars

\* the frame a call of send_async serializes
FrameOf(t) == Serialize(thr[t].size, thr[t].id, thr[t].sn)

\* assert(size <= capacity - queue->buffer_usage)
HasRoom(q, size) == size <= U32(QueueCapacity - q.buffer_usage)

\* after send_async returned: send_sync waits for its callback
Sent(t) ==
    IF thr[t].sync THEN [thr EXCEPT ![t].pc = "wait", ![t].path = "sent"]
    ELSE Return(t, "ok", "sent")

\* the try block of send_async when the frame fits: MutexGuard throws, or the
\* frame is written and SetEvent succeeds or fails
SendAsyncWrite(t, outcome) ==
    /\ Running
    /\ thr[t].pc = "write"
    /\ HasRoom(queue, thr[t].size)
    /\ queue' = IF outcome = "mutex" THEN queue
                ELSE queue_write(queue, FrameOf(t)).queue
    /\ thr' = IF outcome = "sent" THEN Sent(t)
              ELSE [thr EXCEPT ![t].pc = "catch", ![t].path = outcome]
    /\ UNCHANGED <<q_in, q_drained, q_out, q_op>>
    /\ UNCHANGED cvars_but_thr
    /\ UNCHANGED hvars
    /\ UNCHANGED xvars

\* the try block of send_async when the frame does not fit: the assert of
\* queue_write aborts the process, or in a build with NDEBUG the frame is
\* written
SendAsyncOverflow(t, ndebug) ==
    /\ Running
    /\ thr[t].pc = "write"
    /\ ~HasRoom(queue, thr[t].size)
    /\ hist.overflow = "none"
    /\ queue' = IF ndebug THEN queue_write(queue, FrameOf(t)).queue ELSE queue
    /\ thr' = IF ndebug THEN Sent(t) ELSE thr
    /\ hist' = [hist EXCEPT !.aborted = ~ndebug,
                            !.overflow = IF ndebug THEN "written" ELSE "assert"]
    /\ UNCHANGED <<q_in, q_drained, q_out, q_op>>
    /\ UNCHANGED <<m_callbacks, m_transaction_id, m_kill_flag, m_recv_exception,
                   m_recv_thread, m_worker_mutex, rcv, calls, default_calls>>
    /\ UNCHANGED hvars
    /\ UNCHANGED xvars

\* an erase that leaves the entry in the table
EraseCallback_none(cbs, id) == cbs

\* m_callbacks.erase(transaction_id)
EraseCallback(cbs, id) == [cbs EXCEPT ![id] = 0]

\* the catch block of send_async: the entry is erased under m_worker_mutex and
\* IPCError is thrown
SendAsyncCatch(t) ==
    /\ Running
    /\ thr[t].pc = "catch"
    /\ (thr[t].id # INVALID_TRANSACTION) => (m_worker_mutex = 0)
    /\ m_callbacks' = IF thr[t].id # INVALID_TRANSACTION
                      THEN EraseCallback(m_callbacks, thr[t].id) ELSE m_callbacks
    /\ thr' = Return(t, "IPCError", thr[t].path)
    /\ UNCHANGED <<m_transaction_id, m_kill_flag, m_recv_exception, m_recv_thread,
                   m_worker_mutex, rcv, calls, default_calls, hist>>
    /\ UNCHANGED hvars
    /\ UNCHANGED xvars
    /\ UNCHANGED qvars

\* send_sync: cond.wait until the callback ran, then the reply is returned
SendSyncWait(t) ==
    /\ Running
    /\ thr[t].pc = "wait"
    /\ calls[thr[t].sn] # <<>>
    /\ thr' = Return(t, calls[thr[t].sn][1], thr[t].path)
    /\ UNCHANGED <<m_callbacks, m_transaction_id, m_kill_flag, m_recv_exception,
                   m_recv_thread, m_worker_mutex, rcv, calls, default_calls, hist>>
    /\ UNCHANGED hvars
    /\ UNCHANGED xvars
    /\ UNCHANGED qvars

\* start(default_cb): the receive thread is created.  The client is started once
Start ==
    /\ Running /\ NoStopInProgress
    /\ \E t \in Threads : thr[t].pc = "idle"
    /\ ~m_recv_thread /\ ~m_kill_flag
    /\ rcv.pc = "none"
    /\ m_recv_thread' = TRUE
    /\ rcv' = [rcv EXCEPT !.pc = "top"]
    /\ UNCHANGED <<m_callbacks, m_transaction_id, m_kill_flag, m_recv_exception,
                   m_worker_mutex, thr, calls, default_calls, hist>>
    /\ UNCHANGED hvars
    /\ UNCHANGED xvars
    /\ UNCHANGED qvars

\* stop() up to the join: nothing to do without a receive thread, else the
\* kill flag is set and the receive event signalled
Stop(t) ==
    /\ Running
    /\ \A u \in Threads : thr[u].pc = "idle"
    /\ hist.stops < MaxStops
    /\ hist' = [hist EXCEPT !.stops = @ + 1]
    /\ IF ~m_recv_thread
       THEN /\ thr' = [thr EXCEPT ![t] = [IdleThread EXCEPT !.op = "stop", !.result = "ok",
                                                           !.path = "noop"]]
            /\ UNCHANGED <<m_kill_flag, rcv>>
       ELSE /\ thr' = [thr EXCEPT ![t] = [IdleThread EXCEPT !.op = "stop", !.pc = "join"]]
            /\ m_kill_flag' = TRUE
            /\ rcv' = [rcv EXCEPT !.event = TRUE]
    /\ UNCHANGED <<m_callbacks, m_transaction_id, m_recv_exception, m_recv_thread,
                   m_worker_mutex, calls, default_calls>>
    /\ UNCHANGED hvars
    /\ UNCHANGED xvars
    /\ UNCHANGED qvars

\* the same statements of stop(), called by send_async with m_worker_mutex held
StopNested(t) ==
    /\ Running
    /\ thr[t].pc = "stop"
    /\ IF ~m_recv_thread
       THEN /\ thr' = Return(t, "ok", "stop_returned")
            /\ m_worker_mutex' = 0
            /\ UNCHANGED <<m_kill_flag, rcv>>
       ELSE /\ thr' = [thr EXCEPT ![t].pc = "join"]
            /\ m_kill_flag' = TRUE
            /\ rcv' = [rcv EXCEPT !.event = TRUE]
            /\ UNCHANGED m_worker_mutex
    /\ UNCHANGED <<m_callbacks, m_transaction_id, m_recv_exception, m_recv_thread,
                   calls, default_calls, hist>>
    /\ UNCHANGED hvars
    /\ UNCHANGED xvars
    /\ UNCHANGED qvars

\* stop() from the join on: the thread is joined and reset, the table cleared,
\* a stored exception taken and rethrown
StopJoin(t) ==
    /\ Running
    /\ thr[t].pc = "join"
    /\ rcv.pc = "exited"
    /\ m_recv_thread' = FALSE
    /\ m_callbacks' = NoCallbacks
    /\ m_recv_exception' = FALSE
    /\ thr' = Return(t, IF m_recv_exception THEN "rethrown" ELSE "ok",
                     IF thr[t].nested THEN "stop_nested" ELSE "stop")
    /\ m_worker_mutex' = IF thr[t].nested THEN 0 ELSE m_worker_mutex
    /\ UNCHANGED <<m_transaction_id, m_kill_flag, rcv, calls, default_calls, hist>>
    /\ UNCHANGED hvars
    /\ UNCHANGED xvars
    /\ UNCHANGED qvars

\* recv_thread_func, the top of the loop: if (m_kill_flag) break
RecvTop ==
    /\ Running
    /\ rcv.pc = "top"
    /\ rcv' = [rcv EXCEPT !.pc = IF m_kill_flag THEN "exit" ELSE "wait"]
    /\ UNCHANGED <<m_callbacks, m_transaction_id, m_kill_flag, m_recv_exception,
                   m_recv_thread, m_worker_mutex, thr, calls, default_calls, hist>>
    /\ UNCHANGED hvars
    /\ UNCHANGED xvars
    /\ UNCHANGED qvars

\* the wait returns for the event and the receive queue is drained into
\* command_buf: the cells the peer wrote, or none when stop() signalled
RecvWake(n) ==
    /\ Running
    /\ rcv.pc = "wait"
    /\ IF n = 0 THEN rcv.event ELSE hist.wakes < MaxWakes
    /\ rcv' = [rcv EXCEPT !.pc = "parse", !.left = n, !.event = FALSE]
    /\ hist' = [hist EXCEPT !.wakes = IF n = 0 THEN @ ELSE @ + 1]
    /\ UNCHANGED <<m_callbacks, m_transaction_id, m_kill_flag, m_recv_exception,
                   m_recv_thread, m_worker_mutex, thr, calls, default_calls>>
    /\ UNCHANGED hvars
    /\ UNCHANGED xvars
    /\ UNCHANGED qvars

\* the wait returns for the process handle: IPCError is thrown and caught
RecvRemoteExit ==
    /\ Running
    /\ rcv.pc = "wait"
    /\ m_recv_exception' = TRUE
    /\ rcv' = [rcv EXCEPT !.pc = "exit"]
    /\ UNCHANGED <<m_callbacks, m_transaction_id, m_kill_flag, m_recv_thread,
                   m_worker_mutex, thr, calls, default_calls, hist>>
    /\ UNCHANGED hvars
    /\ UNCHANGED xvars
    /\ UNCHANGED qvars

\* the parse loop: command_buf is used up
RecvParsed ==
    /\ Running
    /\ rcv.pc = "parse"
    /\ rcv.left = 0
    /\ rcv' = [rcv EXCEPT !.pc = "top", !.head = ZeroCell]
    /\ UNCHANGED <<m_callbacks, m_transaction_id, m_kill_flag, m_recv_exception,
                   m_recv_thread, m_worker_mutex, thr, calls, default_calls, hist>>
    /\ UNCHANGED hvars
    /\ UNCHANGED xvars
    /\ UNCHANGED qvars

\* the parse loop at a frame: a malformed one throws (the throw is caught and
\* stored), one of an unknown type is skipped, another is deserialized
RecvParse(cell) ==
    /\ Running
    /\ rcv.pc = "parse"
    /\ rcv.left > 0
    /\ LET buf == BufOf(cell, rcv.left)
           head == ParseHead(buf)
       IN /\ rcv' = IF head = "command"
                    THEN [rcv EXCEPT !.pc = "route", !.left = Len(AfterHead(buf)),
                                     !.head = cell, !.response_id = cell.response_id]
                    ELSE IF head = "unknown"
                    THEN [rcv EXCEPT !.left = Len(AfterHead(buf)), !.head = cell]
                    ELSE [rcv EXCEPT !.pc = "exit", !.head = cell]
          /\ m_recv_exception' = IF head \in {"command", "unknown"} THEN m_recv_exception
                                 ELSE TRUE
    /\ UNCHANGED <<m_callbacks, m_transaction_id, m_kill_flag, m_recv_thread,
                   m_worker_mutex, thr, calls, default_calls, hist>>
    /\ UNCHANGED hvars
    /\ UNCHANGED xvars
    /\ UNCHANGED qvars

\* a routing that knows the default callback only
RouteOf_default(cbs, response_id) == 0

\* the call whose callback a command is routed to, 0 for the default callback
RouteOf(cbs, response_id) ==
    IF response_id # INVALID_TRANSACTION THEN cbs[response_id] ELSE 0

\* the parse loop with a command: the callback is looked up and erased under
\* m_worker_mutex, then it or the default callback is invoked
RecvDispatch ==
    /\ Running
    /\ rcv.pc = "route"
    /\ LET sn == RouteOf(m_callbacks, rcv.response_id)
       IN /\ (rcv.response_id # INVALID_TRANSACTION) => (m_worker_mutex = 0)
          /\ m_callbacks' = IF sn # 0 THEN EraseCallback(m_callbacks, rcv.response_id)
                            ELSE m_callbacks
          /\ calls' = IF sn # 0 THEN Invoke(calls, sn, "reply") ELSE calls
          /\ default_calls' = IF sn # 0 THEN default_calls
                              ELSE [default_calls EXCEPT !.command = @ + 1]
    /\ rcv' = [rcv EXCEPT !.pc = "parse", !.head = ZeroCell,
                          !.response_id = INVALID_TRANSACTION]
    /\ UNCHANGED <<m_transaction_id, m_kill_flag, m_recv_exception, m_recv_thread,
                   m_worker_mutex, thr, hist>>
    /\ UNCHANGED hvars
    /\ UNCHANGED xvars
    /\ UNCHANGED qvars

\* cb.second(nullptr) for every entry of m_callbacks
RECURSIVE InvokeAll(_, _, _)
InvokeAll(cs, cbs, ids) ==
    IF ids = {} THEN cs
    ELSE LET id == CHOOSE i \in ids : TRUE
         IN InvokeAll(Invoke(cs, cbs[id], "null"), cbs, ids \ {id})

\* the end of recv_thread_func under m_worker_mutex: every stored callback and
\* the default callback get nullptr, the kill flag is set
RecvExit ==
    /\ Running
    /\ rcv.pc = "exit"
    /\ m_worker_mutex = 0
    /\ calls' = InvokeAll(calls, m_callbacks, Pending(m_callbacks))
    /\ default_calls' = [default_calls EXCEPT !.null = @ + 1]
    /\ m_kill_flag' = TRUE
    /\ rcv' = [rcv EXCEPT !.pc = "exited", !.head = ZeroCell]
    /\ UNCHANGED <<m_callbacks, m_transaction_id, m_recv_exception, m_recv_thread,
                   m_worker_mutex, thr, hist>>
    /\ UNCHANGED hvars
    /\ UNCHANGED xvars
    /\ UNCHANGED qvars

\* the parse loop over a whole buffer: the calls whose commands are
\* dispatched, in order, and whether a throw ended the loop
RECURSIVE ParseAll(_)
ParseAll(buf) ==
    IF buf = <<>> THEN [got |-> <<>>, err |-> "none"]
    ELSE LET head == ParseHead(buf)
         IN IF head \in {"short", "magic", "bounds", "overrun"}
            THEN [got |-> <<>>, err |-> head]
            ELSE LET rest == ParseAll(AfterHead(buf))
                 IN IF head = "unknown" THEN rest
                    ELSE [got |-> <<buf[1].sn>> \o rest.got, err |-> rest.err]

\* the two copies of queue_read stay inside the ring
ReadInBounds(q) ==
    \/ FitsBeforeEnd(q.buffer_usage, q.read_pos)
    \/ U32(q.buffer_usage - U32(QueueCapacity - q.read_pos)) <= QueueCapacity

\* the receive thread of the peer drains the send queue and dispatches its
\* frames; a copy that leaves the ring has no defined result
PeerDrain ==
    /\ queue.buffer_usage > 0
    /\ hist.peer_error = "none"
    /\ IF ReadInBounds(queue)
       THEN LET r == queue_read(queue)
                p == ParseAll(r.buf)
            IN /\ queue' = r.queue
               /\ hist' = [hist EXCEPT !.peer_got = @ \o p.got, !.peer_error = p.err]
       ELSE /\ queue' = queue
            /\ hist' = [hist EXCEPT !.peer_error = "wild"]
    /\ UNCHANGED <<q_in, q_drained, q_out, q_op>>
    /\ UNCHANGED <<m_callbacks, m_transaction_id, m_kill_flag, m_recv_exception,
                   m_recv_thread, m_worker_mutex, rcv, thr, calls, default_calls>>
    /\ UNCHANGED hvars
    /\ UNCHANGED xvars

---------------------------------------------------------------------------
(* Properties of the transport client *)

\* thread t is about to write a frame that does not fit, and takes the step
OversizeWrite(t) ==
    /\ thr[t].pc = "write"
    /\ ~HasRoom(queue, thr[t].size)
    /\ (thr'[t] # thr[t] \/ hist'.overflow # hist.overflow)

\* C11: a write whose size exceeds capacity - buffer_usage fails with an error
\* the caller gets (the catch block of send_async is entered, the process runs
\* on) and leaves the queue as it was, so that no unread byte is overwritten
C11_OversizeWriteFails ==
    [][\A t \in Threads :
          OversizeWrite(t) => /\ queue' = queue
                              /\ ~hist'.aborted
                              /\ thr'[t].pc = "catch"]_vars

\* C12: a received command whose response_id is not the sentinel and has an
\* entry in the pending table goes to that entry's callback, once, and the
\* entry is removed; every other command goes to the default callback and the
\* table stays as it is
C12_RoutedByResponseId ==
    [][(rcv.pc = "route" /\ rcv'.pc # "route") =>
          LET id == rcv.response_id
          IN IF id # INVALID_TRANSACTION /\ m_callbacks[id] # 0
             THEN /\ calls' = [calls EXCEPT ![m_callbacks[id]] = Append(@, "reply")]
                  /\ m_callbacks' = [m_callbacks EXCEPT ![id] = 0]
                  /\ default_calls' = default_calls
             ELSE /\ calls' = calls
                  /\ m_callbacks' = m_callbacks
                  /\ default_calls' = [default_calls EXCEPT !.command = @ + 1]]_vars

\* C12's case: a reply was routed to the callback of its call and the entry
\* is gone, while the receive thread runs on
C12_Witness ==
    /\ rcv.pc = "parse"
    /\ \E sn \in 1..Len(calls) : calls[sn] = <<"reply">>
    /\ m_callbacks = NoCallbacks
    /\ default_calls.command = 0

\* stop() is entered after an earlier stop() joined the receive thread
SecondStop ==
    /\ m_kill_flag /\ ~m_recv_thread
    /\ thr[ClientThread].pc = "idle"
    /\ hist'.stops = hist.stops + 1

\* C13: no callback given to send_async is invoked more than once, whether by
\* the dispatch of a reply, the exit of the receive thread, send_async on a
\* stopped client or stop(); and a stop() that follows a stop() which joined
\* the receive thread returns at once: it invokes no callback, changes
\* nothing of the client and raises nothing
C13_InvokedAtMostOnce ==
    /\ [](\A sn \in 1..Len(calls) : Len(calls[sn]) <= 1)
    /\ [][SecondStop => /\ calls' = calls
                        /\ default_calls' = default_calls
                        /\ m_callbacks' = m_callbacks
                        /\ m_kill_flag' = m_kill_flag
                        /\ rcv' = rcv
                        /\ thr'[ClientThread].pc = "idle"
                        /\ thr'[ClientThread].result = "ok"]_vars

\* C13's case: the second stop() returned, after a callback got the reply to
\* its command and another got nullptr
C13_Witness ==
    /\ hist.stops = 2
    /\ thr[ClientThread].op = "stop" /\ thr[ClientThread].path = "noop"
    /\ m_kill_flag /\ ~m_recv_thread
    /\ \E sn \in 1..Len(calls) : calls[sn] = <<"reply">>
    /\ \E sn \in 1..Len(calls) : calls[sn] = <<"null">>

\* the last call of thread t was stop(), directly or from send_async, and it
\* returned or raised
StopDone(t) ==
    /\ thr[t].pc = "idle"
    /\ thr[t].path \in {"noop", "stop", "stop_nested", "stop_returned"}

\* C14: once the receive thread has exited, every callback in the pending
\* table was invoked with nullptr and the default callback got nullptr exactly
\* once; and after stop() returned or raised the pending table is empty
C14_DrainedOnExit ==
    /\ (rcv.pc = "exited") =>
          /\ default_calls.null = 1
          /\ \A id \in Pending(m_callbacks) : calls[m_callbacks[id]] = <<"null">>
    /\ StopDone(ClientThread) => (m_callbacks = NoCallbacks)

\* send_async with a callback takes m_worker_mutex and finds the kill flag
\* set and no exception stored
KilledSend(t) ==
    /\ thr[t].pc = "lock" /\ thr[t].cb /\ ~thr[t].sync
    /\ m_kill_flag /\ ~m_recv_exception
    /\ thr'[t] # thr[t]

FailedSend(t) ==
    /\ thr[t].pc = "write" /\ thr[t].cb
    /\ (OversizeWrite(t) \/ thr'[t].pc = "catch")

\* the catch block of a send_async with a callback is left
CaughtSend(t) ==
    /\ thr[t].pc = "catch" /\ thr[t].cb
    /\ thr'[t] # thr[t]

\* C16: a send_async that fails after it stored its callback (at the send
\* mutex, in the write or at the event) reaches its catch block with the send
\* queue holding the frame whole or not at all, and leaves it with the entry
\* of its id erased and IPCError raised
C16_FailedSendCleansUp ==
    [][\A t \in Threads :
          /\ FailedSend(t) =>
                /\ thr'[t].pc = "catch"
                /\ ~hist'.aborted
                /\ queue' \in {queue, queue_write(queue, FrameOf(t)).queue}
          /\ CaughtSend(t) =>
                /\ m_callbacks'[thr[t].id] = 0
                /\ thr'[t].pc = "idle"
                /\ thr'[t].result = "IPCError"]_vars

\* the last call of thread t was a send_async or send_sync with a callback
\* that raised IPCError from its catch block
SendFailed(t) ==
    /\ thr[t].pc = "idle" /\ thr[t].result = "IPCError"
    /\ thr[t].path \in {"mutex", "signal"}
    /\ hist.sends \in hist.cbs

\* C17: the callback of a transaction is invoked at most once, with the reply
\* (Delivered) or with nullptr (Aborted); a transaction whose send failed is
\* Aborted, its callback having got nullptr; and after stop() every
\* transaction is Delivered or Aborted
C17_TransactionsEnd ==
    /\ \A sn \in hist.cbs : calls[sn] \in {<<>>, <<"reply">>, <<"null">>}
    /\ SendFailed(ClientThread) => (calls[hist.sends] = <<"null">>)
    /\ StopDone(ClientThread) => (\A sn \in hist.cbs : calls[sn] # <<>>)

\* thread t waits in the join of stop() for a receive thread that waits for
\* the m_worker_mutex t holds
JoinBlocked(t) ==
    /\ thr[t].pc = "join"
    /\ m_worker_mutex = t
    /\ rcv.pc = "exit"

\* C18: an exception of the receive thread is stored, and the call that finds
\* it rethrows it and terminates: it never waits for a receive thread that
\* cannot exit, and once it has rethrown the exception none is stored
C18_RethrowTerminates ==
    \A t \in Threads :
        /\ ~JoinBlocked(t)
        /\ (thr[t].pc = "idle" /\ thr[t].result = "rethrown") => ~m_recv_exception

\* thread t holds an id that next_transaction_id returned
HasId(t) == thr[t].cb /\ thr[t].pc \in {"lock", "write", "catch"}

\* C19: next_transaction_id never returns the sentinel and never gives two
\* calls in flight the same id, and no callback is stored under an id that a
\* pending transaction carries, also after the counter wrapped and with
\* several threads in send_async
C19_PendingIdsUnique ==
    /\ [](\A t \in Threads : HasId(t) => thr[t].id # INVALID_TRANSACTION)
    /\ [](\A t, u \in Threads : (t # u /\ HasId(t) /\ HasId(u)) => thr[t].id # thr[u].id)
    /\ [][\A t \in Threads :
            (HasId(t) /\ thr[t].pc = "lock" /\ thr'[t].pc = "write")
                => m_callbacks[thr[t].id] = 0]_vars

\* C20: the peer dispatches the commands one thread sent in the order of
\* its calls of send_async, each once, whatever the interleaving of the
\* senders and the drains of the peer; and every drain yields whole frames
\* only, so that the peer's parse never fails
C20_DispatchedInSendOrder ==
    /\ hist.peer_error = "none"
    /\ \A i, j \in 1..Len(hist.peer_got) :
          (i < j /\ hist.owner[hist.peer_got[i]] = hist.owner[hist.peer_got[j]])
              => hist.peer_got[i] < hist.peer_got[j]

\* the receive thread left its loop from the wait on the process handle of
\* the peer, with the error stored
RemoteExited ==
    /\ m_recv_exception
    /\ rcv.pc \in {"exit", "exited"}
    /\ rcv.left = 0

\* C27: after the peer terminated, the receive thread exits and every pending
\* callback has got nullptr once; the next send_sync raises the stored error,
\* it neither waits forever nor returns a reply; and the stop() that follows
\* returns without an error
C27_PeerExitSurfaces ==
    /\ \A t \in Threads :
          (RemoteExited /\ thr[t].op = "send_sync") => ~JoinBlocked(t)
    /\ (RemoteExited /\ rcv.pc = "exited") =>
          \A id \in Pending(m_callbacks) : calls[m_callbacks[id]] = <<"null">>
    /\ \A t \in Threads :
          (thr[t].op = "send_sync" /\ thr[t].pc = "idle" /\ thr[t].path = "stop_nested")
              => thr[t].result = "rethrown"

\* the receive thread stored its exception and stands before the lock of
\* m_worker_mutex that opens its exit path, with the mutex taken
RecvWaitsForWorkerMutex ==
    /\ rcv.pc = "exit"
    /\ m_recv_exception
    /\ m_worker_mutex # 0

\* C38: a send_async that runs beside a failing receive thread terminates: it
\* is never in the join of the stop() it called under m_worker_mutex while the
\* receive thread, its exception stored, waits for that mutex
C38_SendAsyncTerminates ==
    \A t \in Threads :
        (thr[t].op = "send_async" /\ thr[t].nested /\ thr[t].pc = "join")
            => ~RecvWaitsForWorkerMutex

\* send_sync takes m_worker_mutex in its send_async on a client whose kill
\* flag is set and that stores no exception
KilledSync(t) ==
    /\ thr[t].pc = "lock" /\ thr[t].sync
    /\ m_kill_flag /\ ~m_recv_exception
    /\ thr'[t] # thr[t]

\* C39: send_sync on a client whose connection has ended (kill flag set, the
\* stored exception consumed) has its callback invoked with nullptr by
\* send_async on the calling thread, and returns the null reply to its caller
C39_SyncAfterEndReturnsNull ==
    [][\A t \in Threads :
          KilledSync(t) => /\ calls' = [calls EXCEPT ![thr[t].sn] = <<"null">>]
                           /\ thr'[t].pc = "idle"
                           /\ thr'[t].result = "null"]_vars

\* the parse loop looks at the envelope at the head of command_buf
ParsedInStep == rcv.pc = "parse" /\ rcv.left > 0 /\ rcv' # rcv

\* the envelope is valid and of an unknown type: no callback is invoked, the
\* pending table and the stored exception stay, the loop goes on behind the
\* declared size
SkipStep ==
    (/\ ParsedInStep
     /\ rcv'.head.magic = "cmdx" /\ rcv'.head.type = "unknown"
     /\ rcv'.head.size >= COMMAND_SIZE /\ rcv'.head.size <= rcv.left)
        => /\ rcv'.pc = "parse"
           /\ rcv'.left = rcv.left - rcv'.head.size
           /\ calls' = calls /\ default_calls' = default_calls
           /\ m_callbacks' = m_callbacks
           /\ m_recv_exception' = m_recv_exception

\* the envelope declares less than an envelope or more than is left: the loop
\* is left with the error stored, and no callback is invoked
BadSizeStep ==
    (/\ ParsedInStep
     /\ rcv'.head.magic = "cmdx"
     /\ (rcv'.head.size < COMMAND_SIZE \/ rcv'.head.size > rcv.left))
        => /\ rcv'.pc = "exit"
           /\ m_recv_exception'
           /\ calls' = calls /\ default_calls' = default_calls

\* the loop stands behind a skipped frame with frames left
Skipped ==
    /\ rcv.pc = "parse" /\ rcv.left > 0
    /\ rcv.head.magic = "cmdx" /\ rcv.head.type = "unknown"

\* the frame that follows is parsed and routed
NextRouted ==
    \E cell \in DrainCells : RecvParse(cell) /\ rcv'.pc = "route"

\* C36: a frame with a valid envelope and an unknown type is skipped (the
\* position advances by its declared size, no callback runs, the pending table
\* is unchanged) and the frames behind it in the same drain are still routed; a
\* declared size below the envelope or above the bytes left ends the receive
\* loop with an error
C36_UnknownTypeSkipped ==
    /\ [][SkipStep /\ BadSizeStep]_vars
    /\ [](Skipped => ENABLED NextRouted)

\* C36's case: an unknown frame with a payload was skipped while a callback is
\* pending, and a frame is left in the drain
C36_Witness ==
    /\ Skipped
    /\ Pending(m_callbacks) # {}

---------------------------------------------------------------------------
(* send_sync, statement by statement *)

\* the calls of send_sync of a run, and the spurious returns of
\* condition_variable::wait
MaxSyncCalls == 2

MaxSpurious == 2

\* what the callback of send_sync can be invoked with: the reply the receive
\* thread dispatched, or nullptr at its exit
SyncArgs == {"reply", "null"}

\* no call of send_sync is in progress.
\* send_sync.waiter: the caller ("idle": outside send_sync, "pred": evaluating the
\* predicate of cond.wait with the mutex held, "towait": about to enter
\* wait(lock), "parked": blocked in it, "relock": woken and taking the mutex);
\* send_sync.cb: the callback ("none": not stored, "pending": stored in m_callbacks,
\* "lock": invoked and taking the mutex, "called": past the lock_guard,
\* "notify": past called = true, "done": returned); send_sync.locals: whether the
\* locals of the call exist
SyncInit ==
    /\ called = FALSE
    /\ sync_result = "none"
    /\ mutex = "free"
    /\ sync_cond = {}
    /\ send_sync = [waiter |-> "idle", cb |-> "none", arg |-> "none", locals |-> FALSE,
               returned |-> "none", calls |-> 0, spurious |-> 0, fault |-> "none"]

\* send_sync up to cond.wait: the locals are constructed, the mutex is
\* locked, and send_async stores the callback and writes the command
SyncCall ==
    /\ send_sync.waiter = "idle" /\ send_sync.cb \in {"none", "done"}
    /\ send_sync.fault = "none"
    /\ send_sync.calls < MaxSyncCalls
    /\ called' = FALSE
    /\ sync_result' = "none"
    /\ mutex' = "send_sync"
    /\ sync_cond' = {}
    /\ send_sync' = [send_sync EXCEPT !.waiter = "pred", !.cb = "pending", !.arg = "none",
                            !.locals = TRUE, !.returned = "none",
                            !.calls = @ + 1, !.spurious = 0]
    /\ UNCHANGED <<hvars, qvars, cvars, avars, nvars>>

\* cond.wait(lock, pred) evaluates the predicate: with called set send_sync
\* returns result and its locals are destroyed, else wait(lock) is next
SyncPred ==
    /\ send_sync.waiter = "pred" /\ send_sync.fault = "none"
    /\ IF called
       THEN /\ send_sync' = [send_sync EXCEPT !.waiter = "idle", !.locals = FALSE,
                                    !.returned = sync_result]
            /\ mutex' = "free"
       ELSE /\ send_sync' = [send_sync EXCEPT !.waiter = "towait"]
            /\ mutex' = mutex
    /\ UNCHANGED <<called, sync_result, sync_cond>>
    /\ UNCHANGED <<hvars, qvars, cvars, avars, nvars>>

\* wait(lock): the mutex is released and the thread blocks, in one step
SyncPark ==
    /\ send_sync.waiter = "towait" /\ send_sync.fault = "none"
    /\ mutex' = "free"
    /\ sync_cond' = sync_cond \cup {"send_sync"}
    /\ send_sync' = [send_sync EXCEPT !.waiter = "parked"]
    /\ UNCHANGED <<called, sync_result>>
    /\ UNCHANGED <<hvars, qvars, cvars, avars, nvars>>

\* wait(lock) returns without a notification
SyncSpurious ==
    /\ send_sync.waiter = "parked" /\ send_sync.fault = "none"
    /\ send_sync.spurious < MaxSpurious
    /\ sync_cond' = sync_cond \ {"send_sync"}
    /\ send_sync' = [send_sync EXCEPT !.waiter = "relock", !.spurious = @ + 1]
    /\ UNCHANGED <<called, sync_result, mutex>>
    /\ UNCHANGED <<hvars, qvars, cvars, avars, nvars>>

\* the woken thread takes the mutex again before wait(lock) returns
SyncRelock ==
    /\ send_sync.waiter = "relock" /\ send_sync.fault = "none"
    /\ mutex = "free"
    /\ mutex' = "send_sync"
    /\ send_sync' = [send_sync EXCEPT !.waiter = "pred"]
    /\ UNCHANGED <<called, sync_result, sync_cond>>
    /\ UNCHANGED <<hvars, qvars, cvars, avars, nvars>>

\* the receive thread invokes the callback, with the reply or with nullptr
CbInvoke(arg) ==
    /\ send_sync.cb = "pending" /\ send_sync.fault = "none"
    /\ send_sync' = [send_sync EXCEPT !.cb = "lock", !.arg = arg]
    /\ UNCHANGED <<called, sync_result, mutex, sync_cond>>
    /\ UNCHANGED <<hvars, qvars, cvars, avars, nvars>>

\* { std::lock_guard<std::mutex> lock{ mutex }; result = std::move(c); }
CbStore ==
    /\ send_sync.cb = "lock" /\ send_sync.fault = "none"
    /\ mutex = "free"
    /\ sync_result' = send_sync.arg
    /\ send_sync' = [send_sync EXCEPT !.cb = "called"]
    /\ UNCHANGED <<called, mutex, sync_cond>>
    /\ UNCHANGED <<hvars, qvars, cvars, avars, nvars>>

\* called = true, without the mutex
CbSetCalled ==
    /\ send_sync.cb = "called" /\ send_sync.fault = "none"
    /\ called' = TRUE
    /\ send_sync' = [send_sync EXCEPT !.cb = "notify"]
    /\ UNCHANGED <<sync_result, mutex, sync_cond>>
    /\ UNCHANGED <<hvars, qvars, cvars, avars, nvars>>

\* cond.notify_all(), without the mutex: the threads blocked in wait are woken
CbNotify ==
    /\ send_sync.cb = "notify" /\ send_sync.fault = "none"
    /\ send_sync.locals
    /\ sync_cond' = {}
    /\ send_sync' = [send_sync EXCEPT !.cb = "done",
                            !.waiter = IF "send_sync" \in sync_cond THEN "relock" ELSE @]
    /\ UNCHANGED <<called, sync_result, mutex>>
    /\ UNCHANGED <<hvars, qvars, cvars, avars, nvars>>

\* cond.notify_all() after send_sync returned: the condition variable was
\* destroyed, and the call does nothing or the process stops
CbNotifyDestroyed(outcome) ==
    /\ send_sync.cb = "notify" /\ send_sync.fault = "none"
    /\ ~send_sync.locals
    /\ send_sync' = [send_sync EXCEPT !.cb = "done", !.fault = outcome]
    /\ UNCHANGED <<called, sync_result, mutex, sync_cond>>
    /\ UNCHANGED <<hvars, qvars, cvars, avars, nvars>>

\* the caller is blocked in wait(lock) and the callback has returned: no
\* notification is to come
Stranded ==
    /\ send_sync.waiter = "parked"
    /\ "send_sync" \in sync_cond
    /\ send_sync.cb = "done"

\* C21: once the callback of a send_sync was invoked, send_sync returns what
\* the callback got, however the callback interleaves with the caller and
\* whenever wait returns without a notification: the caller is never left
\* blocked after the callback returned
C21_SyncReturnsAfterCallback ==
    /\ ~Stranded
    /\ (send_sync.waiter = "idle" /\ send_sync.calls > 0) => send_sync.returned = send_sync.arg

---------------------------------------------------------------------------
(* The run loop of AVSProxy (src/avsproxy/avsproxy.cpp) over the transport *)

\* the calls of runloop of a run, the commands the peer sends, the blocks of
\* the heap
MaxRunloops == 2

MaxInbound == 2

MaxBlocks == 2

Offsets == 1..MaxBlocks

\* the clip ids a GET_FRAME of the peer names; the first is in m_clips
RegisteredClip == 0

ClipIds == {0, 1}

\* a command: its type, the ids of its envelope, the heap offset it holds
\* (NULL_OFFSET for none) and the clip a GET_FRAME names
Command(type, transaction_id, response_id, heap_offset, clip_id) ==
    [type |-> type, transaction_id |-> transaction_id, response_id |-> response_id,
     heap_offset |-> heap_offset, clip_id |-> clip_id]

\* std::unique_ptr<Command>{}
NullCommand ==
    Command("nullptr", INVALID_TRANSACTION, INVALID_TRANSACTION, NULL_OFFSET, 0)

\* the state a call works on: the blocks, the commands written, the offsets
\* leaked, the pending callbacks (each bound to the request counter of its
\* call), the id counter, whether the stored exception of the receive thread is
\* still there, and the exception the call has raised
World ==
    [blocks |-> heap_blocks, sent |-> sent, leaks |-> leaks, cbs |-> m_callbacks,
     tid |-> m_transaction_id, stored |-> m_recv_exception, err |-> "none"]

\* IPCClient::allocate for a process: the lowest free block, or IPCHeapFull
allocate(w, who) ==
    IF w.err # "none" THEN [w |-> w, off |-> NULL_OFFSET]
    ELSE IF \A o \in Offsets : w.blocks[o] # "free"
    THEN [w |-> [w EXCEPT !.err = "IPCError"], off |-> NULL_OFFSET]
    ELSE LET o == CHOOSE x \in Offsets :
                     w.blocks[x] = "free" /\ \A y \in Offsets : w.blocks[y] = "free" => x <= y
         IN [w |-> [w EXCEPT !.blocks[o] = who], off |-> o]

\* IPCClient::deallocate(offset_to_pointer(off)) by the master: nullptr is
\* ignored; a block that is not live has no header to free
deallocate(w, off) ==
    IF w.err # "none" \/ off = NULL_OFFSET THEN w
    ELSE IF w.blocks[off] = "free" THEN [w EXCEPT !.err = "double_free"]
    ELSE [w EXCEPT !.blocks[off] = "free"]

\* the types whose commands hold a heap offset
HeapTypes == {"EVAL_SCRIPT", "SET_FRAME", "SET_SCRIPT_VAR"}

\* ~Command(): a command that still holds an offset logs the leak
destroy(w, c) ==
    IF c.type \in HeapTypes /\ c.heap_offset # NULL_OFFSET
    THEN [w EXCEPT !.leaks = @ \cup {c.heap_offset}] ELSE w

\* next_transaction_id over the counter of the world
NextId(tid) == IF tid = INVALID_TRANSACTION THEN (tid + 1) % IdSpace ELSE tid

\* IPCClient::send_async(command, cb) by the master, cb being runloop_callback
\* bound to request (0: no callback).  A stored exception is rethrown by
\* stop(); with the kill flag set the callback gets nullptr at once, and
\* runloop_callback then locks the m_mutex its caller holds; else the callback
\* is stored and the command written, or the write fails and the entry is
\* erased.  The command is destroyed as it is on every path
send_async(w, c, request, outcome) ==
    IF w.err # "none" THEN w
    ELSE LET id == IF request # 0 THEN NextId(w.tid) ELSE INVALID_TRANSACTION
             w1 == IF request # 0 THEN [w EXCEPT !.tid = (id + 1) % IdSpace] ELSE w
             cmd == [c EXCEPT !.transaction_id = id]
         IN IF w.stored
            THEN destroy([w1 EXCEPT !.stored = FALSE, !.cbs = NoCallbacks,
                                    !.err = "IPCError"], cmd)
            ELSE IF m_kill_flag
            THEN destroy([w1 EXCEPT !.err = IF request # 0 THEN "relock" ELSE "none"], cmd)
            ELSE IF outcome = "failed"
            THEN destroy([w1 EXCEPT !.err = "IPCError"], cmd)
            ELSE LET w2 == IF request # 0 THEN [w1 EXCEPT !.cbs[id] = request] ELSE w1
                     w3 == [w2 EXCEPT !.sent = Append(@, cmd)]
                     w4 == IF cmd.heap_offset # NULL_OFFSET
                           THEN [w3 EXCEPT !.blocks[cmd.heap_offset] = "slave"] ELSE w3
                 IN destroy(w4, cmd)

\* send_err without its test of the sentinel
send_err_unconditional(w, response_id, outcome) ==
    send_async(w, Command("ERR", INVALID_TRANSACTION, response_id, NULL_OFFSET, 0),
               0, outcome)

\* send_err(response_id)
send_err(w, response_id, outcome) ==
    IF response_id = INVALID_TRANSACTION THEN w
    ELSE send_async(w, Command("ERR", INVALID_TRANSACTION, response_id, NULL_OFFSET, 0),
                    0, outcome)

\* send_ack(response_id)
send_ack(w, response_id, outcome) ==
    IF response_id = INVALID_TRANSACTION THEN w
    ELSE send_async(w, Command("ACK", INVALID_TRANSACTION, response_id, NULL_OFFSET, 0),
                    0, outcome)

\* reject(c): c->deallocate_heap_resources(), then send_err(c->transaction_id())
reject(w, c, outcome) ==
    IF w.err # "none" THEN w
    ELSE LET w1 == deallocate(w, IF c.type \in HeapTypes THEN c.heap_offset ELSE NULL_OFFSET)
         IN IF w1.err # "none" THEN destroy(w1, c)
            ELSE send_err(w1, c.transaction_id, outcome)

\* reject_commands(): every command of the deque, from the front
RECURSIVE reject_commands(_, _, _)
reject_commands(w, q, outcome) ==
    IF q = <<>> \/ w.err # "none" THEN [w |-> w, q |-> q]
    ELSE reject_commands(reject(w, Head(q), outcome), Tail(q), outcome)

\* AVSProxy once init() has returned: its runloop call was the first request.
\* run: the thread that calls runloop (pc "idle": outside; "enter": before the
\* lock of m_mutex; "wait": in m_cond.wait; "service": a command of the deque in
\* hand, m_mutex unlocked; "relock": before lock.lock(), the command just
\* handled still named; "fatal": in the catch
\* block of get_frame_initial; "failed": a block was released twice;
\* "stuck": locking the
\* m_mutex it holds), with the command in hand, the id of its own command,
\* what the last call returned and raised.
\* recv: the receive thread ("top": between commands; "cb": in
\* runloop_callback before the comparison; "cbstore": before its lock of
\* m_mutex; "exit": leaving recv_thread_func; "exited"; "crashed").
\* peer: the commands the peer sent, the next transaction id of its own
RunInit ==
    /\ m_command_queue = <<>>
    /\ m_runloop_response = NullCommand
    /\ m_runloop_response_received = FALSE
    /\ m_active_request = 1
    /\ m_remote_exit = FALSE
    /\ run = [pc |-> "idle", c |-> NullCommand,
              id |-> INVALID_TRANSACTION, calls |-> 0,
              ret |-> NullCommand, threw |-> "none"]
    /\ recv = [pc |-> "top", c |-> NullCommand, request |-> 0]
    /\ peer = [inbound |-> 0, next_id |-> 0]
    /\ heap_blocks = [o \in Offsets |-> "free"]
    /\ sent = <<>>
    /\ leaks = {}

\* neither thread has stopped the process
Alive == recv.pc # "crashed" /\ run.pc \notin {"stuck", "failed"}

\* the state of the world after a call
Commit(w) ==
    /\ heap_blocks' = w.blocks
    /\ sent' = w.sent
    /\ leaks' = w.leaks
    /\ m_callbacks' = w.cbs
    /\ m_transaction_id' = w.tid
    /\ m_recv_exception' = w.stored

\* an exception leaves runloop: get_frame_initial calls
\* fatal() on IPCError and lets the others through
Thrown(err) ==
    IF err = "relock" THEN [run EXCEPT !.pc = "stuck", !.threw = err]
    ELSE IF err = "double_free"
    THEN [run EXCEPT !.pc = "failed", !.c = NullCommand, !.threw = err]
    ELSE IF err = "IPCError"
    THEN [run EXCEPT !.pc = "fatal", !.c = NullCommand, !.threw = err]
    ELSE [run EXCEPT !.pc = "idle", !.c = NullCommand, !.threw = err]

\* runloop(c) is called by get_frame_initial with a GET_FRAME.  With
\* m_remote_exit set runtime_error is raised
RunloopCall ==
    /\ Alive /\ run.pc = "idle"
    /\ run.calls < MaxRunloops
    /\ LET c == Command("GET_FRAME", INVALID_TRANSACTION, INVALID_TRANSACTION,
                        NULL_OFFSET, RegisteredClip)
           r0 == [run EXCEPT !.calls = @ + 1, !.ret = NullCommand,
                             !.threw = "none", !.id = INVALID_TRANSACTION]
       IN run' = IF m_remote_exit THEN [r0 EXCEPT !.threw = "remote_exit"]
                 ELSE [r0 EXCEPT !.pc = "enter", !.c = c]
    /\ UNCHANGED <<m_command_queue, m_runloop_response, m_runloop_response_received,
                   m_active_request, m_remote_exit, recv, peer, m_kill_flag,
                   heap_blocks, sent, leaks, m_callbacks, m_transaction_id,
                   m_recv_exception>>
    /\ UNCHANGED <<hvars, qvars, svars, tvars, nvars>>

\* runloop from its lock of m_mutex to m_cond.wait: the deque is rejected,
\* the slot and the flag are reset, and the command is sent with
\* runloop_callback bound to ++m_active_request
RunloopEnter(outcome) ==
    /\ Alive /\ run.pc = "enter"
    /\ LET r == reject_commands(World, m_command_queue, outcome)
           request == m_active_request + 1
           w1 == destroy(r.w, m_runloop_response)
           w2 == send_async(w1, run.c, request, outcome)
       IN /\ m_command_queue' = r.q
          /\ IF r.w.err # "none"
             THEN /\ Commit([r.w EXCEPT !.err = "none"])
                  /\ run' = Thrown(r.w.err)
                  /\ UNCHANGED <<m_runloop_response, m_runloop_response_received,
                                 m_active_request>>
             ELSE /\ Commit([w2 EXCEPT !.err = "none"])
                  /\ m_runloop_response' = NullCommand
                  /\ m_runloop_response_received' = FALSE
                  /\ m_active_request' = request
                  /\ run' = IF w2.err # "none" THEN Thrown(w2.err)
                            ELSE [run EXCEPT !.pc = "wait", !.c = NullCommand,
                                             !.id = NextId(m_transaction_id)]
    /\ UNCHANGED <<m_remote_exit, recv, peer, m_kill_flag>>
    /\ UNCHANGED <<hvars, qvars, svars, tvars, nvars>>

\* the front of the deque is taken and m_mutex unlocked
Pop ==
    /\ m_command_queue' = Tail(m_command_queue)
    /\ run' = [run EXCEPT !.pc = "service", !.c = Head(m_command_queue)]
    /\ UNCHANGED <<m_runloop_response, m_runloop_response_received, m_callbacks,
                   m_transaction_id, m_recv_exception, heap_blocks, sent, leaks>>

\* expect_response that raises without rejecting the reply
expect_response_throws_only(w, c, expected_type, outcome) ==
    IF w.err # "none" THEN w
    ELSE IF c.type = "nullptr" \/ c.type = "ERR" \/ c.type # expected_type
    THEN [w EXCEPT !.err = "runtime_error"]
    ELSE w

\* expect_response(c, expected_type): no reply, an ERR and a reply of another
\* type raise runtime_error, the reply, if there is one, rejected first
expect_response(w, c, expected_type, outcome) ==
    IF w.err # "none" THEN w
    ELSE IF c.type = "nullptr" THEN [w EXCEPT !.err = "runtime_error"]
    ELSE IF c.type = "ERR" \/ c.type # expected_type
    THEN LET w1 == reject(w, c, outcome)
         IN IF w1.err # "none" THEN w1 ELSE [w1 EXCEPT !.err = "runtime_error"]
    ELSE w

\* what get_frame_initial does with the reply: it expects SET_FRAME, copies
\* the frame and releases it
Consume(w, c, outcome) ==
    LET w1 == expect_response(w, c, "SET_FRAME", outcome)
    IN IF w1.err # "none" THEN w1 ELSE deallocate(w1, c.heap_offset)

\* the loop of runloop has seen m_runloop_response_received: the deque is
\* rejected, the reply acknowledged when it carries a transaction id, and
\* returned to the caller
Break(outcome) ==
    LET r == reject_commands(World, m_command_queue, outcome)
        w1 == IF m_runloop_response.type # "nullptr"
              THEN send_ack(r.w, m_runloop_response.transaction_id, outcome) ELSE r.w
        w2 == Consume(w1, m_runloop_response, outcome)
    IN /\ m_command_queue' = r.q
       /\ Commit([w2 EXCEPT !.err = "none"])
       /\ IF w1.err # "none"
          THEN /\ run' = Thrown(w1.err)
               /\ UNCHANGED m_runloop_response
          ELSE /\ run' = IF w2.err # "none"
                         THEN [Thrown(w2.err) EXCEPT !.ret = m_runloop_response]
                         ELSE [run EXCEPT !.pc = "idle", !.c = NullCommand,
                                          !.ret = m_runloop_response]
               /\ m_runloop_response' = NullCommand
       /\ UNCHANGED m_runloop_response_received

\* one turn of the loop once m_mutex is locked, after m_cond.wait (inner
\* FALSE) or after a command was serviced (inner TRUE, the loop over the deque)
Loop(inner, outcome) ==
    IF inner /\ m_command_queue # <<>> THEN Pop
    ELSE IF m_remote_exit
    THEN /\ run' = Thrown("remote_exit")
         /\ UNCHANGED <<m_command_queue, m_runloop_response, m_runloop_response_received,
                        m_callbacks, m_transaction_id, m_recv_exception, heap_blocks,
                        sent, leaks>>
    ELSE IF m_runloop_response_received THEN Break(outcome)
    ELSE IF m_command_queue # <<>> THEN Pop
    ELSE /\ run' = [run EXCEPT !.pc = "wait", !.c = NullCommand]
         /\ UNCHANGED <<m_command_queue, m_runloop_response, m_runloop_response_received,
                        m_callbacks, m_transaction_id, m_recv_exception, heap_blocks,
                        sent, leaks>>

\* m_cond.wait returns with m_mutex locked: its predicate holds
RunloopWake(outcome) ==
    /\ Alive /\ run.pc = "wait"
    /\ (m_remote_exit \/ m_runloop_response_received \/ m_command_queue # <<>>)
    /\ Loop(FALSE, outcome)
    /\ UNCHANGED <<m_active_request, m_remote_exit, recv, peer, m_kill_flag>>
    /\ UNCHANGED <<hvars, qvars, svars, tvars, nvars>>

\* lock.lock() after a command was serviced
RunloopRelock(outcome) ==
    /\ Alive /\ run.pc = "relock"
    /\ Loop(TRUE, outcome)
    /\ UNCHANGED <<m_active_request, m_remote_exit, recv, peer, m_kill_flag>>
    /\ UNCHANGED <<hvars, qvars, svars, tvars, nvars>>

\* service_remote_getframe with a SET_FRAME that names no request
service_remote_getframe_unnamed(w, c, outcome, svc) ==
    LET a == allocate(w, "master")
    IN send_async(a.w, Command("SET_FRAME", INVALID_TRANSACTION, INVALID_TRANSACTION,
                               a.off, 0), 0, outcome)

\* service_remote_getframe that releases the block of the frame it has sent
service_remote_getframe_frees(w, c, outcome, svc) ==
    LET a == allocate(w, "master")
        response == Command("SET_FRAME", INVALID_TRANSACTION, c.transaction_id, a.off, 0)
    IN deallocate(send_async(a.w, response, 0, outcome), a.off)

\* service_remote_getframe(c): ERR for a clip that is not in m_clips or a
\* frame that get_frame cannot produce; else the frame is copied to a block
\* of the heap and SET_FRAME sent in reply, unless making the command fails
service_remote_getframe(w, c, outcome, svc) ==
    IF c.clip_id # RegisteredClip \/ svc = "get_frame"
    THEN send_err(w, c.transaction_id, outcome)
    ELSE LET a == allocate(w, "master")
             response == Command("SET_FRAME", INVALID_TRANSACTION, c.transaction_id,
                                 a.off, 0)
         IN IF a.w.err # "none" THEN a.w
            ELSE IF svc = "bad_alloc"
            THEN [deallocate(a.w, a.off) EXCEPT !.err = "bad_alloc"]
            ELSE send_async(a.w, response, 0, outcome)

\* the command in hand is rejected, or serviced when it is a GET_FRAME
RunloopService(outcome, svc) ==
    /\ Alive /\ run.pc = "service"
    /\ (run.c.type # "GET_FRAME" \/ run.c.clip_id # RegisteredClip) => svc = "ok"
    /\ LET w == IF run.c.type # "GET_FRAME" THEN reject(World, run.c, outcome)
                ELSE service_remote_getframe(World, run.c, outcome, svc)
       IN /\ Commit([w EXCEPT !.err = "none"])
          /\ run' = IF w.err # "none" THEN Thrown(w.err)
                    ELSE [run EXCEPT !.pc = "relock"]
    /\ UNCHANGED <<m_command_queue, m_runloop_response, m_runloop_response_received,
                   m_active_request, m_remote_exit, recv, peer, m_kill_flag>>
    /\ UNCHANGED <<hvars, qvars, svars, tvars, nvars>>

\* the catch block of get_frame_initial: fatal() calls stop(), which sets the
\* kill flag, signals the receive thread and joins it
Fatal ==
    /\ Alive /\ run.pc = "fatal"
    /\ m_kill_flag' = TRUE
    /\ run' = [run EXCEPT !.pc = "join"]
    /\ UNCHANGED <<m_command_queue, m_runloop_response, m_runloop_response_received,
                   m_active_request, m_remote_exit, recv, peer, heap_blocks, sent, leaks,
                   m_callbacks, m_transaction_id, m_recv_exception>>
    /\ UNCHANGED <<hvars, qvars, svars, tvars, nvars>>

\* stop() after the join: the table is cleared and a stored exception taken;
\* fatal() sets m_remote_exit
FatalJoin ==
    /\ Alive /\ run.pc = "join"
    /\ recv.pc = "exited"
    /\ m_callbacks' = NoCallbacks
    /\ m_recv_exception' = FALSE
    /\ m_remote_exit' = TRUE
    /\ run' = [run EXCEPT !.pc = "idle"]
    /\ UNCHANGED <<m_command_queue, m_runloop_response, m_runloop_response_received,
                   m_active_request, recv, peer, heap_blocks, sent, leaks,
                   m_transaction_id, m_kill_flag>>
    /\ UNCHANGED <<hvars, qvars, svars, tvars, nvars>>

\* the commands the peer sends: their types, and the response ids they name
InboundTypes == {"GET_FRAME", "EVAL_SCRIPT", "SET_FRAME", "ERR", "SET_SCRIPT_VAR"}

\* the receive thread deserializes a command of the peer, which holds a block
\* the peer allocated when its type has one.  With a response_id that has an
\* entry in m_callbacks the entry is erased and its callback invoked; else
\* recv_callback appends the command to the deque under m_mutex.  The peer
\* answers a transaction that is pending with SET_FRAME, ERR or
\* SET_SCRIPT_VAR, and sends GET_FRAME and EVAL_SCRIPT of its own
RecvDeliver(type, response_id, has_tid, clip_id) ==
    /\ Alive /\ recv.pc = "top"
    /\ peer.inbound < MaxInbound
    /\ (response_id = INVALID_TRANSACTION) = (type \in {"GET_FRAME", "EVAL_SCRIPT"})
    /\ has_tid => peer.next_id < INVALID_TRANSACTION
    /\ response_id # INVALID_TRANSACTION => m_callbacks[response_id] # 0
    /\ (type # "GET_FRAME") => clip_id = RegisteredClip
    /\ (type \in HeapTypes) => \E o \in Offsets : heap_blocks[o] = "free"
    /\ LET a == IF type \in HeapTypes THEN allocate(World, "master")
                ELSE [w |-> World, off |-> NULL_OFFSET]
           c == Command(type, IF has_tid THEN peer.next_id ELSE INVALID_TRANSACTION,
                        response_id, a.off, clip_id)
           routed == response_id # INVALID_TRANSACTION /\ m_callbacks[response_id] # 0
       IN /\ peer' = [inbound |-> peer.inbound + 1,
                      next_id |-> IF has_tid THEN peer.next_id + 1 ELSE peer.next_id]
          /\ heap_blocks' = a.w.blocks
          /\ IF routed
             THEN /\ m_callbacks' = EraseCallback(m_callbacks, response_id)
                  /\ recv' = [pc |-> "cb", c |-> c, request |-> m_callbacks[response_id]]
                  /\ UNCHANGED m_command_queue
             ELSE /\ m_command_queue' = Append(m_command_queue, c)
                  /\ UNCHANGED <<m_callbacks, recv>>
    /\ UNCHANGED <<m_runloop_response, m_runloop_response_received, m_active_request,
                   m_remote_exit, run, sent, leaks, m_transaction_id, m_kill_flag,
                   m_recv_exception>>
    /\ UNCHANGED <<hvars, qvars, svars, tvars, nvars>>

\* runloop_callback(request, c) with a command, up to its lock of m_mutex: a
\* request that is not m_active_request releases the command and sends ERR.
\* An exception leaves recv_thread_func through its catch block
RecvCompare(outcome) ==
    /\ Alive /\ recv.pc = "cb"
    /\ IF recv.request # m_active_request
       THEN LET w == reject(World, recv.c, outcome)
            IN /\ Commit([w EXCEPT !.err = "none",
                                   !.stored = IF w.err # "none" THEN TRUE ELSE w.stored])
               /\ recv' = [pc |-> IF w.err # "none" THEN "exit" ELSE "top",
                           c |-> NullCommand, request |-> 0]
       ELSE /\ recv' = [recv EXCEPT !.pc = "cbstore"]
            /\ UNCHANGED <<heap_blocks, sent, leaks, m_callbacks, m_transaction_id,
                           m_recv_exception>>
    /\ UNCHANGED <<m_command_queue, m_runloop_response, m_runloop_response_received,
                   m_active_request, m_remote_exit, run, peer, m_kill_flag>>
    /\ UNCHANGED <<hvars, qvars, svars, tvars, nvars>>

\* runloop_callback under m_mutex: the command goes to the slot (what the slot
\* held is destroyed) and the flag is set
RecvStore ==
    /\ Alive /\ recv.pc = "cbstore"
    /\ m_runloop_response' = recv.c
    /\ m_runloop_response_received' = TRUE
    /\ leaks' = destroy(World, m_runloop_response).leaks
    /\ recv' = [pc |-> "top", c |-> NullCommand, request |-> 0]
    /\ UNCHANGED <<m_command_queue, m_active_request, m_remote_exit, run, peer,
                   heap_blocks, sent, m_callbacks, m_transaction_id, m_kill_flag,
                   m_recv_exception>>
    /\ UNCHANGED <<hvars, qvars, svars, tvars, nvars>>

\* the entries of m_callbacks whose request is not m_active_request
Stale == {id \in Pending(m_callbacks) : m_callbacks[id] # m_active_request}

\* the end of recv_thread_func, reached for the kill flag, for the exit of
\* the peer or from the catch block: every entry of m_callbacks is invoked
\* with nullptr, then recv_callback(nullptr) sets m_remote_exit, then the kill
\* flag is set.  runloop_callback with the request of the current call stores
\* nullptr and sets the flag; with another request it calls
\* deallocate_heap_resources through the null pointer, which stops the process
\* or returns
RecvExit_(null_call) ==
    /\ Alive /\ recv.pc \in {"top", "exit"}
    /\ (Stale = {}) => null_call = "returns"
    /\ IF null_call = "crash"
       THEN /\ recv' = [recv EXCEPT !.pc = "crashed"]
            /\ UNCHANGED <<m_runloop_response, m_runloop_response_received, leaks,
                           m_remote_exit, m_kill_flag, m_recv_exception>>
       ELSE /\ recv' = [recv EXCEPT !.pc = "exited"]
            /\ IF Pending(m_callbacks) \ Stale # {}
               THEN /\ m_runloop_response' = NullCommand
                    /\ m_runloop_response_received' = TRUE
                    /\ leaks' = destroy(World, m_runloop_response).leaks
               ELSE UNCHANGED <<m_runloop_response, m_runloop_response_received, leaks>>
            /\ m_remote_exit' = TRUE
            /\ m_kill_flag' = TRUE
            /\ m_recv_exception' = IF recv.pc = "top" /\ ~m_kill_flag THEN TRUE
                                   ELSE m_recv_exception
    /\ UNCHANGED <<m_command_queue, m_active_request, run, peer, heap_blocks, sent,
                   m_callbacks, m_transaction_id>>
    /\ UNCHANGED <<hvars, qvars, svars, tvars, nvars>>

\* the peer releases a block it was sent, in heap_to_local_frame or
\* heap_to_local_str
PeerFree(o) ==
    /\ Alive
    /\ heap_blocks[o] = "slave"
    /\ heap_blocks' = [heap_blocks EXCEPT ![o] = "free"]
    /\ UNCHANGED <<m_command_queue, m_runloop_response, m_runloop_response_received,
                   m_active_request, m_remote_exit, run, recv, peer, sent, leaks>>
    /\ UNCHANGED <<hvars, qvars, svars, cvars, nvars>>

---------------------------------------------------------------------------
(* Properties of the run loop *)

\* C24: a reply callback whose request is not m_active_request never reaches
\* the store of the response slot and the flag, and handles every argument
\* it is invoked with, nullptr at the end of the receive thread included
C24_StaleReplyDiscarded ==
    /\ recv.pc = "cbstore" => recv.request = m_active_request
    /\ recv.pc # "crashed"

\* C25: no command handed to send_async is destroyed while it holds an offset
C25_SendAsyncOwnership == leaks = {}

\* the ERR commands with a response_id among those a step has written
NewErrs(response_id) ==
    {i \in (Len(sent) + 1)..Len(sent') :
        sent'[i].type = "ERR" /\ sent'[i].response_id = response_id}

\* what reject does to a command in a step: the block of its offset is free,
\* and one ERR names its transaction id when it has one
RejectedInStep(c) ==
    /\ (c.type \in HeapTypes /\ c.heap_offset # NULL_OFFSET)
          => heap_blocks'[c.heap_offset] = "free"
    /\ (c.transaction_id # INVALID_TRANSACTION)
          => Cardinality(NewErrs(c.transaction_id)) = 1
    /\ NewErrs(INVALID_TRANSACTION) = {}

\* the steps of the run loop that reject, none of their sends failing: the
\* command in hand that is not a GET_FRAME, the deque at the start of
\* runloop, and the deque once the reply was received
RejectStep ==
    /\ (run.pc = "service" /\ run.c.type # "GET_FRAME" /\ run'.pc = "relock")
          => RejectedInStep(run.c)
    /\ (run.pc = "enter" /\ run'.pc = "wait")
          => /\ m_command_queue' = <<>>
             /\ \A i \in 1..Len(m_command_queue) : RejectedInStep(m_command_queue[i])
    /\ (run.pc = "wait" /\ run'.pc # "wait" /\ ~m_remote_exit
           /\ m_runloop_response_received /\ run'.threw \in {"none", "runtime_error"})
          => /\ m_command_queue' = <<>>
             /\ \A i \in 1..Len(m_command_queue) : RejectedInStep(m_command_queue[i])

\* C23: every command the run loop takes from the deque that is not a
\* GET_FRAME, and every command in the deque at the start of runloop or once
\* the reply was received, is rejected: when reject returns, the block of its
\* heap offset is released and one ERR with its transaction id as response_id
\* was sent if and only if that id is not the sentinel
C23_Rejected == [][RejectStep]_vars

\* an EVAL_SCRIPT of the peer with a block and a transaction id was taken from
\* the deque and rejected
C23_Witness ==
    /\ run.pc = "relock"
    /\ run.c.type = "EVAL_SCRIPT"
    /\ run.c.heap_offset # NULL_OFFSET
    /\ run.c.transaction_id # INVALID_TRANSACTION
    /\ heap_blocks[run.c.heap_offset] = "free"
    /\ \E i \in 1..Len(sent) :
          sent[i].type = "ERR" /\ sent[i].response_id = run.c.transaction_id

\* the commands of the peer the run loop has not handled: the deque and the
\* command in hand
Unhandled(q, r) ==
    {q[i] : i \in 1..Len(q)} \cup (IF r.pc = "service" THEN {r.c} ELSE {})

\* the commands a step has written
Written == {sent'[i] : i \in (Len(sent) + 1)..Len(sent')}

\* in a step of the run loop that raises nothing, every GET_FRAME for a clip
\* of m_clips that leaves the deque or the hand is answered with SET_FRAME
AnsweredInStep ==
    (run.pc \in {"wait", "service", "relock"} /\ run'.threw = "none")
      => \A c \in Unhandled(m_command_queue, run) \ Unhandled(m_command_queue', run') :
           (c.type = "GET_FRAME" /\ c.clip_id = RegisteredClip)
             => \E r \in Written :
                  r.type = "SET_FRAME" /\ r.response_id = c.transaction_id

ServicedInStep ==
    (run.pc = "service" /\ run.c.type = "GET_FRAME" /\ run.c.clip_id = RegisteredClip
       /\ run'.pc = "relock")
      => \/ \E o \in Offsets :
              /\ heap_blocks[o] = "free" /\ heap_blocks'[o] = "slave"
              /\ sent' = Append(sent, Command("SET_FRAME", INVALID_TRANSACTION,
                                              run.c.transaction_id, o, 0))
         \/ /\ heap_blocks' = heap_blocks
            /\ sent' = IF run.c.transaction_id = INVALID_TRANSACTION THEN sent
                       ELSE Append(sent, Command("ERR", INVALID_TRANSACTION,
                                                 run.c.transaction_id, NULL_OFFSET, 0))

\* the deque is served before the reply is looked at again: a GET_FRAME leaves
\* the deque rejected only at the start of runloop or once the reply is in
TakenInStep ==
    (run.pc \in {"wait", "relock"} /\ run'.pc = "service")
      => /\ run'.c = Head(m_command_queue)
         /\ m_command_queue' = Tail(m_command_queue)
         /\ (run.pc = "wait") => ~m_runloop_response_received /\ ~m_remote_exit

\* runloop returns what the reply callback stored in the slot
ReturnedInStep ==
    (run.pc \in {"wait", "relock"} /\ run'.pc = "idle" /\ run'.threw = "none")
      => /\ m_runloop_response_received
         /\ run'.ret = m_runloop_response
         /\ run'.ret.type = "SET_FRAME"
         /\ m_command_queue' = <<>>

\* the thread in runloop has a command of the peer to handle
Queued ==
    /\ Alive /\ run.pc \in {"wait", "service", "relock"}
    /\ Unhandled(m_command_queue, run) # {}

\* the reply is in the slot and runloop has not looked yet
Replied ==
    /\ Alive /\ run.pc \in {"wait", "service", "relock"}
    /\ m_runloop_response_received

\* the steps of the thread in runloop
RunloopThread ==
    \/ \E outcome \in {"sent", "failed"} : RunloopWake(outcome)
    \/ \E outcome \in {"sent", "failed"} : RunloopRelock(outcome)
    \/ \E outcome \in {"sent", "failed"}, svc \in {"ok", "get_frame", "bad_alloc"} :
          RunloopService(outcome, svc)

\* the thread in runloop is not blocked while it has work: it never locks the
\* m_mutex it holds, and it can take its next step
NotBlocked ==
    /\ run.pc # "stuck"
    /\ (Queued \/ Replied) => ENABLED RunloopThread

Held ==
    m_command_queue
      \o (IF run.pc = "service" THEN <<run.c>> ELSE <<>>)
      \o <<m_runloop_response>>
      \o (IF recv.pc \in {"cb", "cbstore"} THEN <<recv.c>> ELSE <<>>)

\* every offset a held command names is a block of the master, and no two
\* held commands name the same block
HeldOwned ==
    \A i \in 1..Len(Held) :
      Held[i].heap_offset # NULL_OFFSET
        => /\ heap_blocks[Held[i].heap_offset] = "master"
           /\ \A j \in 1..Len(Held) :
                Held[j].heap_offset = Held[i].heap_offset => j = i

\* a block of the peer changes only when the peer frees it; a block becomes
\* the peer's exactly in the step that writes the command naming it; and no
\* deallocate finds its block free
OwnershipStep ==
    /\ \A o \in Offsets :
         /\ (heap_blocks[o] = "slave" /\ heap_blocks'[o] # "slave")
              => (heap_blocks'[o] = "free" /\ run' = run /\ recv' = recv /\ sent' = sent)
         /\ (heap_blocks[o] # "slave" /\ heap_blocks'[o] = "slave")
              => \E r \in Written : r.heap_offset = o
    /\ \A r \in Written :
         r.heap_offset # NULL_OFFSET => heap_blocks'[r.heap_offset] = "slave"
    /\ run'.threw # "double_free"

\* C26: each block of the heap has one owner, which becomes the peer when a
\* command naming the block is written to the queue: the master frees no block
\* twice, and neither frees nor allocates again a block it has sent
C26_SingleOwner == []HeldOwned /\ [][OwnershipStep]_vars

\* the master sent a SET_FRAME whose block the peer has freed, and has itself
\* freed the block of the reply runloop returned
C26_Witness ==
    /\ run.pc = "idle" /\ run.threw = "none"
    /\ run.ret.type = "SET_FRAME" /\ run.ret.heap_offset # NULL_OFFSET
    /\ \E i \in 1..Len(sent) :
          /\ sent[i].type = "SET_FRAME"
          /\ sent[i].heap_offset # run.ret.heap_offset
          /\ heap_blocks[sent[i].heap_offset] = "free"
    /\ heap_blocks[run.ret.heap_offset] = "free"

\* a reply that get_frame_initial does not expect: ERR, or another type
FailedReply(c) == c.type # "nullptr" /\ c.type # "SET_FRAME"

\* a step in which expect_response raises runtime_error for such a reply
FailedInStep ==
    /\ run.threw = "none" /\ run'.threw = "runtime_error"
    /\ FailedReply(run'.ret)

\* the caller has the error of such a reply
FailureReported == run.pc = "idle" /\ run.threw = "runtime_error" /\ FailedReply(run.ret)

\* the step leaves the transport as it was, and the block of the reply free
ReportStep ==
    FailedInStep =>
        /\ run'.pc = "idle"
        /\ recv' = recv
        /\ m_kill_flag' = m_kill_flag
        /\ m_recv_exception' = m_recv_exception
        /\ m_remote_exit' = m_remote_exit
        /\ run'.ret.heap_offset # NULL_OFFSET => heap_blocks'[run'.ret.heap_offset] = "free"

\* C33: when the reply to the master's request is ERR or of a type that was
\* not expected, the caller alone gets the failure: the step that raises it
\* leaves the receive thread, the kill flag, the stored exception and
\* m_remote_exit as they were, the heap payload of the reply is free when the
\* error is raised, and the next request can be made
C33_FailedReplyReported ==
    /\ [][ReportStep]_vars
    /\ [](FailureReported /\ Alive /\ run.calls < MaxRunloops => ENABLED RunloopCall)

\* C33's case: a SET_SCRIPT_VAR that holds a block was the reply, the caller
\* has runtime_error, the block is free and the receive thread is in its loop
C33_Witness ==
    /\ FailureReported
    /\ run.ret.type = "SET_SCRIPT_VAR" /\ run.ret.heap_offset # NULL_OFFSET
    /\ heap_blocks[run.ret.heap_offset] = "free"
    /\ recv.pc = "top" /\ ~m_kill_flag /\ ~m_remote_exit

---------------------------------------------------------------------------
(* The mutexes of the master: runloop and the receive thread, lock by lock *)

\* the calls of runloop and the commands of the peer in a run of this model
MaxLockCalls == 2

MaxLockInbound == 2

\* the run-loop mutex of AVSProxy, the mutex of the pending table, the
\* mutexes of the two queues and of the heap
Mutexes == {"m_mutex", "m_worker_mutex", "send_mutex", "recv_mutex", "heap_mutex"}

\* the thread that calls runloop and the receive thread
LockThreads == {"app", "recv"}

\* a statement a thread has still to execute
Stmt(op, m) == [op |-> op, m |-> m]

S(op) == Stmt(op, "")

Lock(m) == Stmt("lock", m)

Unlock(m) == Stmt("unlock", m)

\* a command as the locks see it: its type, whether it carries a transaction
\* id, the request its response_id answers (0: none), whether it holds a block
LockCommand(type, has_tid, response, has_heap) ==
    [type |-> type, has_tid |-> has_tid, response |-> response, has_heap |-> has_heap]

LockNull == LockCommand("nullptr", FALSE, 0, FALSE)

\* IPCClient::allocate and IPCClient::deallocate: heap_alloc and heap_free
\* under the MutexGuard of the heap
allocate_stmts == <<Lock("heap_mutex"), Unlock("heap_mutex")>>

deallocate_stmts == <<Lock("heap_mutex"), Unlock("heap_mutex")>>

\* IPCClient::send_async: the lock_guard of m_worker_mutex, then the block it
\* guards
send_async_stmts(cb) == <<Lock("m_worker_mutex"), Stmt("send_async", cb)>>

\* the try block of send_async: queue_write under the MutexGuard of the send
\* queue, then SetEvent
write_stmts == <<Lock("send_mutex"), Unlock("send_mutex")>>

\* send_err(response_id) and send_ack(response_id)
send_err_stmts(c) == IF c.has_tid THEN send_async_stmts("") ELSE <<>>

\* reject(c)
reject_stmts(c) ==
    (IF c.has_heap THEN deallocate_stmts ELSE <<>>) \o send_err_stmts(c)

\* the command taken from the deque is rejected, or for a GET_FRAME
\* service_remote_getframe(c) is called: local_to_heap_frame allocates, then
\* the SET_FRAME is made
service_stmts(c) ==
    IF c.type # "GET_FRAME" THEN reject_stmts(c)
    ELSE allocate_stmts \o <<S("make_response")>>

\* recv_callback(c)
recv_callback_stmts == <<Lock("m_mutex"), S("recv_callback"), Unlock("m_mutex")>>

\* a drain whose callbacks run with the receive queue locked
drain_stmts_dispatch_inside ==
    <<Lock("recv_mutex"), S("dispatch"), S("callback"), Unlock("recv_mutex"), S("top")>>

\* one turn of the loop of recv_thread_func after the wait: queue_read under
\* the MutexGuard of the receive queue, then the parse loop
drain_stmts ==
    <<Lock("recv_mutex"), Unlock("recv_mutex"), S("dispatch"), S("callback"), S("top")>>

\* the end of recv_thread_func: the callbacks of m_callbacks, the default
\* callback, the kill flag
exit_stmts ==
    <<Lock("m_worker_mutex"), S("exit_callbacks")>> \o recv_callback_stmts
        \o <<S("set_kill"), Unlock("m_worker_mutex")>>

\* the master once init() has returned, its receive thread at the top of its
\* loop.  shared: the members the two threads read and write (the pending
\* table names the request each callback is bound to); reg: the command in
\* hand, the request bound to the callback in hand, the entries the exit path
\* has invoked, and for the thread of runloop its calls and what the last raised
LockInit ==
    /\ held = [t \in LockThreads |-> {}]
    /\ todo = [t \in LockThreads |-> IF t = "recv" THEN <<S("top")>> ELSE <<>>]
    /\ reg = [t \in LockThreads |->
                [c |-> LockNull, request |-> 0, seen |-> {}, calls |-> 0, threw |-> "none"]]
    /\ shared = [m_remote_exit |-> FALSE, m_kill_flag |-> FALSE,
                 m_recv_exception |-> FALSE, m_runloop_response_received |-> FALSE,
                 m_runloop_response |-> LockNull, m_command_queue |-> <<>>,
                 m_callbacks |-> {}, m_active_request |-> 1, joined |-> FALSE,
                 inbound |-> 0, crashed |-> FALSE]

\* what the statements of this model leave alone
lock_others == <<hvars, qvars, cvars, svars, avars, mvars>>

\* the statement thread t executes next
Top(t) == IF todo[t] = <<>> THEN S("none") ELSE Head(todo[t])

\* thread t is at statement op
At(t, op) == ~shared.crashed /\ Top(t).op = op

\* the statements stmts take the place of the one thread t is at
Continue(t, stmts) == todo' = [todo EXCEPT ![t] = stmts \o Tail(todo[t])]

\* a mutex is locked: the thread waits while a thread holds it, itself included
Acquire(t) ==
    /\ At(t, "lock")
    /\ \A u \in LockThreads : Top(t).m \notin held[u]
    /\ held' = [held EXCEPT ![t] = @ \cup {Top(t).m}]
    /\ Continue(t, <<>>)
    /\ UNCHANGED <<reg, shared>>
    /\ UNCHANGED lock_others

\* a guard is destroyed, or unlock() is called
Release(t) ==
    /\ At(t, "unlock")
    /\ held' = [held EXCEPT ![t] = @ \ {Top(t).m}]
    /\ Continue(t, <<>>)
    /\ UNCHANGED <<reg, shared>>
    /\ UNCHANGED lock_others

\* an exception leaves runloop: its guards are destroyed; get_frame_initial
\* calls fatal() on IPCError
Throw(err) ==
    /\ held' = [held EXCEPT !["app"] = {}]
    /\ todo' = [todo EXCEPT !["app"] = IF err = "IPCError" THEN <<S("fatal")>> ELSE <<>>]
    /\ reg' = [reg EXCEPT !["app"].threw = err, !["app"].c = LockNull]

\* runloop(c) is called with a GET_FRAME: runtime_error with m_remote_exit set,
\* else the lock of m_mutex, reject_commands(), the send and the loop
LockRunloopCall ==
    /\ ~shared.crashed
    /\ todo["app"] = <<>>
    /\ reg["app"].calls < MaxLockCalls
    /\ todo' = [todo EXCEPT !["app"] =
                   IF shared.m_remote_exit THEN <<>>
                   ELSE <<Lock("m_mutex"), S("reject_commands"), S("runloop_send"),
                          S("wait")>>]
    /\ reg' = [reg EXCEPT !["app"].calls = @ + 1,
                          !["app"].threw = IF shared.m_remote_exit THEN "runtime_error"
                                           ELSE "none"]
    /\ UNCHANGED <<held, shared>>
    /\ UNCHANGED lock_others

\* reject_commands(): the front of the deque is taken and rejected, until the
\* deque is empty
LockRejectCommands(t) ==
    /\ At(t, "reject_commands")
    /\ IF shared.m_command_queue = <<>>
       THEN /\ Continue(t, <<>>)
            /\ UNCHANGED <<reg, shared>>
       ELSE /\ Continue(t, reject_stmts(Head(shared.m_command_queue))
                              \o <<S("reject_commands")>>)
            /\ reg' = [reg EXCEPT ![t].c = Head(shared.m_command_queue)]
            /\ shared' = [shared EXCEPT !.m_command_queue = Tail(@)]
    /\ UNCHANGED held
    /\ UNCHANGED lock_others

\* runloop resets the slot and the flag and sends its command with
\* runloop_callback bound to ++m_active_request
LockRunloopSend ==
    /\ At("app", "runloop_send")
    /\ shared' = [shared EXCEPT !.m_runloop_response = LockNull,
                                !.m_runloop_response_received = FALSE,
                                !.m_active_request = @ + 1]
    /\ reg' = [reg EXCEPT !["app"].request = shared.m_active_request + 1,
                          !["app"].c = LockNull]
    /\ Continue("app", send_async_stmts("cb"))
    /\ UNCHANGED held
    /\ UNCHANGED lock_others

\* send_async under m_worker_mutex: stop() with an exception stored (the kill
\* flag is set and the receive thread joined); with the kill flag set the
\* callback gets nullptr and the call returns; else the callback is stored,
\* the mutex released and the frame written
LockSendAsync(t) ==
    /\ At(t, "send_async")
    /\ IF shared.m_recv_exception
       THEN /\ Continue(t, <<S("join"), S("rethrow")>>)
            /\ shared' = [shared EXCEPT !.m_kill_flag = TRUE]
            /\ UNCHANGED reg
       ELSE IF shared.m_kill_flag
       THEN /\ Continue(t, (IF Top(t).m = "cb" THEN <<S("runloop_callback")>> ELSE <<>>)
                              \o <<Unlock("m_worker_mutex")>>)
            /\ reg' = IF Top(t).m = "cb" THEN [reg EXCEPT ![t].c = LockNull] ELSE reg
            /\ UNCHANGED shared
       ELSE /\ Continue(t, <<Unlock("m_worker_mutex")>> \o write_stmts)
            /\ shared' = IF Top(t).m = "cb"
                         THEN [shared EXCEPT !.m_callbacks = @ \cup {reg[t].request}]
                         ELSE shared
            /\ UNCHANGED reg
    /\ UNCHANGED held
    /\ UNCHANGED lock_others

\* stop() joins the receive thread, resets it and clears the pending table
LockJoin(t) ==
    /\ At(t, "join")
    /\ shared.joined \/ todo["recv"] = <<>>
    /\ shared' = [shared EXCEPT !.joined = TRUE, !.m_callbacks = {}]
    /\ Continue(t, <<>>)
    /\ UNCHANGED <<held, reg>>
    /\ UNCHANGED lock_others

\* stop() takes the stored exception and rethrows it out of send_async and
\* runloop
LockRethrow ==
    /\ At("app", "rethrow")
    /\ shared' = [shared EXCEPT !.m_recv_exception = FALSE]
    /\ Throw("IPCError")
    /\ UNCHANGED lock_others

\* fatal(): stop(), which sets the kill flag, signals and joins the receive
\* thread and rethrows what it stored, then m_remote_exit = true
LockFatal ==
    /\ At("app", "fatal")
    /\ shared' = IF shared.joined THEN shared ELSE [shared EXCEPT !.m_kill_flag = TRUE]
    /\ Continue("app", <<S("join"), S("fatal_done")>>)
    /\ UNCHANGED <<held, reg>>
    /\ UNCHANGED lock_others

LockFatalDone ==
    /\ At("app", "fatal_done")
    /\ shared' = IF shared.m_recv_exception
                 THEN [shared EXCEPT !.m_recv_exception = FALSE]
                 ELSE [shared EXCEPT !.m_remote_exit = TRUE]
    /\ Continue("app", <<>>)
    /\ UNCHANGED <<held, reg>>
    /\ UNCHANGED lock_others

\* the predicate of m_cond.wait in runloop
WaitPredicate ==
    \/ shared.m_remote_exit
    \/ shared.m_runloop_response_received
    \/ shared.m_command_queue # <<>>

\* m_cond.wait with m_mutex locked: the mutex is released while the predicate
\* is false.  With the predicate true the loop goes on: runtime_error for
\* m_remote_exit; with the reply received reject_commands(), send_ack, and
\* the return destroys the lock; else the loop over the deque
LockWait ==
    /\ At("app", "wait")
    /\ IF ~WaitPredicate
       THEN /\ held' = [held EXCEPT !["app"] = @ \ {"m_mutex"}]
            /\ Continue("app", <<S("parked")>>)
            /\ UNCHANGED reg
       ELSE IF shared.m_remote_exit
       THEN Throw("runtime_error")
       ELSE /\ Continue("app", IF shared.m_runloop_response_received
                               THEN <<S("reject_commands"), S("send_ack"),
                                      Unlock("m_mutex")>>
                               ELSE <<S("inner")>>)
            /\ UNCHANGED <<held, reg>>
    /\ UNCHANGED shared
    /\ UNCHANGED lock_others

\* the waiter is notified and locks m_mutex again to test the predicate
LockParked ==
    /\ At("app", "parked")
    /\ WaitPredicate
    /\ Continue("app", <<Lock("m_mutex"), S("wait")>>)
    /\ UNCHANGED <<held, reg, shared>>
    /\ UNCHANGED lock_others

\* the loop over the deque: the front is taken, m_mutex unlocked, the command
\* serviced or rejected and m_mutex locked again
LockInner ==
    /\ At("app", "inner")
    /\ IF shared.m_command_queue = <<>>
       THEN /\ Continue("app", <<S("wait")>>)
            /\ UNCHANGED <<reg, shared>>
       ELSE /\ Continue("app", <<Unlock("m_mutex")>>
                                  \o service_stmts(Head(shared.m_command_queue))
                                  \o <<Lock("m_mutex"), S("inner")>>)
            /\ reg' = [reg EXCEPT !["app"].c = Head(shared.m_command_queue)]
            /\ shared' = [shared EXCEPT !.m_command_queue = Tail(@)]
    /\ UNCHANGED held
    /\ UNCHANGED lock_others

\* service_remote_getframe makes the SET_FRAME and sends it; when
\* std::make_unique fails the block is released and bad_alloc leaves runloop
LockMakeResponse(svc) ==
    /\ At("app", "make_response")
    /\ Continue("app", IF svc = "ok" THEN send_async_stmts("")
                       ELSE deallocate_stmts \o <<S("throw")>>)
    /\ UNCHANGED <<held, reg, shared>>
    /\ UNCHANGED lock_others

LockThrow ==
    /\ At("app", "throw")
    /\ Throw("bad_alloc")
    /\ UNCHANGED shared
    /\ UNCHANGED lock_others

\* if (m_runloop_response) send_ack(m_runloop_response->transaction_id())
LockSendAck ==
    /\ At("app", "send_ack")
    /\ Continue("app", send_err_stmts(shared.m_runloop_response))
    /\ UNCHANGED <<held, reg, shared>>
    /\ UNCHANGED lock_others

\* recv_thread_func, the top of the loop: if (m_kill_flag) break
LockRecvTop ==
    /\ At("recv", "top")
    /\ Continue("recv", IF shared.m_kill_flag THEN exit_stmts ELSE <<S("recv_wait")>>)
    /\ UNCHANGED <<held, reg, shared>>
    /\ UNCHANGED lock_others

\* the wait returns for a command of the peer: an unsolicited one, or the
\* reply to a request
LockRecvCommand(c) ==
    /\ At("recv", "recv_wait")
    /\ shared.inbound < MaxLockInbound
    /\ (c.response # 0) = (c.type = "SET_FRAME")
    /\ c.has_heap = (c.type = "SET_FRAME")
    /\ shared' = [shared EXCEPT !.inbound = @ + 1]
    /\ reg' = [reg EXCEPT !["recv"].c = c, !["recv"].request = 0]
    /\ Continue("recv", drain_stmts)
    /\ UNCHANGED held
    /\ UNCHANGED lock_others

\* the wait returns for the event stop() has set, or for the process handle
\* of the peer: IPCError is thrown, caught and stored
LockRecvEnd(remote_exit) ==
    /\ At("recv", "recv_wait")
    /\ ~remote_exit => shared.m_kill_flag
    /\ shared' = [shared EXCEPT !.m_recv_exception = IF remote_exit THEN TRUE ELSE @]
    /\ Continue("recv", IF remote_exit THEN exit_stmts ELSE <<S("top")>>)
    /\ UNCHANGED <<held, reg>>
    /\ UNCHANGED lock_others

\* the parse loop with a command: a response_id is looked up under
\* m_worker_mutex
LockDispatch ==
    /\ At("recv", "dispatch")
    /\ Continue("recv", IF reg["recv"].c.response # 0
                        THEN <<Lock("m_worker_mutex"), S("route"),
                               Unlock("m_worker_mutex")>>
                        ELSE <<>>)
    /\ UNCHANGED <<held, reg, shared>>
    /\ UNCHANGED lock_others

\* the entry of the response_id is moved out of m_callbacks and erased
LockRoute ==
    /\ At("recv", "route")
    /\ LET r == reg["recv"].c.response
       IN /\ reg' = [reg EXCEPT !["recv"].request = IF r \in shared.m_callbacks THEN r ELSE 0]
          /\ shared' = [shared EXCEPT !.m_callbacks = @ \ {r}]
    /\ Continue("recv", <<>>)
    /\ UNCHANGED held
    /\ UNCHANGED lock_others

\* the callback found is invoked, else the default callback
LockInvoke ==
    /\ At("recv", "callback")
    /\ Continue("recv", IF reg["recv"].request # 0 THEN <<S("runloop_callback")>>
                        ELSE recv_callback_stmts)
    /\ UNCHANGED <<held, reg, shared>>
    /\ UNCHANGED lock_others

\* runloop_callback(request, c) up to its lock of m_mutex.  A request that is
\* not m_active_request rejects the command; with nullptr the call through the
\* null pointer stops the process, or returns and send_err goes on
LockRunloopCallback(t, null_call) ==
    /\ At(t, "runloop_callback")
    /\ LET stale == reg[t].request # shared.m_active_request
           null == reg[t].c = LockNull
       IN /\ (stale /\ null) = (null_call # "none")
          /\ IF null_call = "crash"
             THEN /\ shared' = [shared EXCEPT !.crashed = TRUE]
                  /\ UNCHANGED todo
             ELSE /\ UNCHANGED shared
                  /\ Continue(t, IF ~stale
                                 THEN <<Lock("m_mutex"), S("store"), Unlock("m_mutex")>>
                                 ELSE IF null THEN send_async_stmts("")
                                 ELSE reject_stmts(reg[t].c))
    /\ UNCHANGED <<held, reg>>
    /\ UNCHANGED lock_others

\* runloop_callback under m_mutex: the slot and the flag
LockStore(t) ==
    /\ At(t, "store")
    /\ shared' = [shared EXCEPT !.m_runloop_response = reg[t].c,
                                !.m_runloop_response_received = TRUE]
    /\ Continue(t, <<>>)
    /\ UNCHANGED <<held, reg>>
    /\ UNCHANGED lock_others

\* recv_callback under m_mutex: the deque, or m_remote_exit for nullptr
LockRecvCallback ==
    /\ At("recv", "recv_callback")
    /\ shared' = IF reg["recv"].c = LockNull
                 THEN [shared EXCEPT !.m_remote_exit = TRUE]
                 ELSE [shared EXCEPT !.m_command_queue = Append(@, reg["recv"].c)]
    /\ Continue("recv", <<>>)
    /\ UNCHANGED <<held, reg>>
    /\ UNCHANGED lock_others

\* the exit path under m_worker_mutex: cb.second(nullptr) for the next entry
\* of m_callbacks, and after the last the default callback gets nullptr
LockExitCallbacks ==
    /\ At("recv", "exit_callbacks")
    /\ LET ids == shared.m_callbacks \ reg["recv"].seen
       IN IF ids = {}
          THEN /\ Continue("recv", <<>>)
               /\ reg' = [reg EXCEPT !["recv"].c = LockNull, !["recv"].request = 0]
          ELSE LET r == CHOOSE x \in ids : \A y \in ids : x <= y
               IN /\ Continue("recv", <<S("runloop_callback"), S("exit_callbacks")>>)
                  /\ reg' = [reg EXCEPT !["recv"].seen = @ \cup {r},
                                        !["recv"].request = r, !["recv"].c = LockNull]
    /\ UNCHANGED <<held, shared>>
    /\ UNCHANGED lock_others

\* m_kill_flag = true
LockSetKill ==
    /\ At("recv", "set_kill")
    /\ shared' = [shared EXCEPT !.m_kill_flag = TRUE]
    /\ Continue("recv", <<>>)
    /\ UNCHANGED <<held, reg>>
    /\ UNCHANGED lock_others

---------------------------------------------------------------------------
(* Properties of the mutexes *)

\* thread t waits for a mutex that thread u holds
WaitsFor(t, u) == Top(t).op = "lock" /\ Top(t).m \in held[u]

\* C37: runloop returns or raises when the peer exits or the receive thread
\* fails: the thread in runloop, holding m_mutex, and the receive thread in its
\* exit path, holding m_worker_mutex, never wait for each other's mutex
C37_RunloopTerminates ==
    ~(WaitsFor("app", "recv") /\ WaitsFor("recv", "app"))

\* C31: no thread holds the mutexes of both queues, and no thread holds the
\* heap mutex together with m_worker_mutex, in every state, the callbacks of
\* the exit path and the stop() of send_async included
C31_LockDiscipline ==
    \A t \in LockThreads :
        /\ ~({"send_mutex", "recv_mutex"} \subseteq held[t])
        /\ ~({"heap_mutex", "m_worker_mutex"} \subseteq held[t])

\* C31's case: the receive thread runs a callback of its exit path under
\* m_worker_mutex, after send_async of the other thread wrote under the send
\* mutex
C31_Witness ==
    /\ "m_worker_mutex" \in held["recv"]
    /\ Top("recv").op = "recv_callback"
    /\ reg["recv"].c = LockNull
    /\ reg["app"].calls > 0

---------------------------------------------------------------------------
(* The slave's attach to the shared segment *)

\* sizeof(ipc::SharedMemoryHeader): magic, size, version and three offsets
SIZEOF_HEADER == 24

\* sizeof(ipc::Queue): magic, size, buffer_offset, buffer_usage, read_pos,
\* write_pos and the two handles
SIZEOF_QUEUE == 32

\* sizeof(ipc::Heap): magic, size, buffer_offset, buffer_usage,
\* last_free_offset and the handle
SIZEOF_HEAP == 24

\* sizeof(ipc::Command) in bytes: magic, size, the two ids and the type
SIZEOF_COMMAND == 20

\* the shmem_size the command line of the slave can carry: less than a
\* header, a header and nothing more, and a segment that holds two queues of
\* 64 bytes at 24 and 88 and a heap of 104 bytes at 152
SegSizes == {16, 24, 256}

\* the offsets a header can hold
AttachOffsets == {24, 88, 152, 4096}

\* header->version is ipc::VERSION or not
Versions == {"VERSION", "other"}

\* the headers the mapped bytes can hold
Headers ==
    [magic : {"avsw", "junk"}, size : SegSizes, version : Versions,
     master_queue_offset : AttachOffsets, slave_queue_offset : AttachOffsets,
     heap_offset : AttachOffsets]

\* the first fields of an ipc::Queue or ipc::Heap as the bytes at an offset
\* can hold them
Structs == [magic : {"cmdq", "heap", "junk"}, size : {0, 64, 104}, buffer_offset : {32, 4096}]

\* bytes the constructor has not read
Unread == [magic |-> "unread", size |-> 0, buffer_offset |-> 0]

\* no attach in progress
AttachNone ==
    [pc |-> "none", shmem_size |-> 0,
     header |-> [magic |-> "junk", size |-> 0, version |-> "other", master_queue_offset |-> 0,
                 slave_queue_offset |-> 0, heap_offset |-> 0],
     seen |-> [o \in AttachOffsets |-> Unread], result |-> "none"]

AttachIdle == att = AttachNone

\* IPCClient(slave_tag, master_process, shmem_handle, shmem_size) is called on
\* a mapping that starts with any header
AttachInit ==
    \E shmem_size \in SegSizes, header \in Headers :
        att = [AttachNone EXCEPT !.pc = "open", !.shmem_size = shmem_size, !.header = header]

att_others == <<hvars, qvars, cvars, svars, avars, lvars, host, ev>>

\* the constructor ends: it throws IPCError, the process takes an access
\* violation, or the client is constructed
AttachEnd(result) == att' = [att EXCEPT !.pc = "done", !.result = result]

\* shmem_size < sizeof(ipc::SharedMemoryHeader), then MapViewOfFile
AttachOpen ==
    /\ att.pc = "open"
    /\ IF att.shmem_size < SIZEOF_HEADER
       THEN AttachEnd("IPCError")
       ELSE att' = [att EXCEPT !.pc = "header"]
    /\ UNCHANGED att_others

\* the header: magic, size, version, and the three offsets against
\* header->size - sizeof, a difference of unsigned operands
check_header(header, shmem_size) ==
    /\ header.magic = "avsw"
    /\ header.size = shmem_size
    /\ header.version = "VERSION"
    /\ ~(\/ header.slave_queue_offset > U32(header.size - SIZEOF_QUEUE)
         \/ header.master_queue_offset > U32(header.size - SIZEOF_QUEUE)
         \/ header.heap_offset > U32(header.size - SIZEOF_HEAP))

AttachHeader ==
    /\ att.pc = "header"
    /\ IF check_header(att.header, att.shmem_size)
       THEN att' = [att EXCEPT !.pc = "master_queue"]
       ELSE AttachEnd("IPCError")
    /\ UNCHANGED att_others

\* the structure at offset off with its magic: size against what the segment
\* has left after off, buffer_offset against size - sizeof(first), again a
\* difference of unsigned operands
check_struct(header, off, s, magic, first) ==
    /\ s.magic = magic
    /\ ~(\/ s.size > U32(header.size - off)
         \/ s.buffer_offset > U32(s.size - first))

\* a structure of bytes bytes at off is read from the mapping; bytes the
\* constructor has read hold what it read
Mapped(off, bytes) == off + bytes <= att.shmem_size

Reads(off, s) == att.seen[off] \in {Unread, s}

\* a read past the mapping is an access violation, or finds what the address
\* space holds there
ReadOutcomes(off, bytes) == IF Mapped(off, bytes) THEN {"read"} ELSE {"read", "fault"}

AttachStruct(off, s, outcome, bytes, magic, first, next) ==
    /\ Reads(off, s)
    /\ outcome \in ReadOutcomes(off, bytes)
    /\ IF outcome = "fault"
       THEN AttachEnd("access_violation")
       ELSE IF check_struct(att.header, off, s, magic, first)
       THEN att' = [att EXCEPT !.pc = next, !.seen[off] = s,
                               !.result = IF next = "done" THEN "attached" ELSE @]
       ELSE att' = [att EXCEPT !.pc = "done", !.seen[off] = s, !.result = "IPCError"]
    /\ UNCHANGED att_others

\* m_master_queue
AttachMasterQueue(s, outcome) ==
    /\ att.pc = "master_queue"
    /\ AttachStruct(att.header.master_queue_offset, s, outcome, SIZEOF_QUEUE, "cmdq",
                    SIZEOF_COMMAND, "slave_queue")

\* m_slave_queue
AttachSlaveQueue(s, outcome) ==
    /\ att.pc = "slave_queue"
    /\ AttachStruct(att.header.slave_queue_offset, s, outcome, SIZEOF_QUEUE, "cmdq",
                    SIZEOF_COMMAND, "heap")

\* m_heap, and the handles: the client is constructed
AttachHeap(s, outcome) ==
    /\ att.pc = "heap"
    /\ AttachStruct(att.header.heap_offset, s, outcome, SIZEOF_HEAP, "heap",
                    HEAP_NODE_SIZE, "done")

(* Properties of the attach *)

\* the structure s at off lies in the segment: its header, its size and
\* the place of its buffer
Inside(off, s, bytes) ==
    /\ off + bytes <= att.shmem_size
    /\ off + s.size <= att.shmem_size
    /\ off + s.buffer_offset < att.shmem_size

\* nothing of what the constructor has read is wrong
SegmentValid ==
    /\ att.header.magic = "avsw"
    /\ att.header.size = att.shmem_size
    /\ att.header.version = "VERSION"
    /\ att.seen[att.header.master_queue_offset].magic = "cmdq"
    /\ att.seen[att.header.slave_queue_offset].magic = "cmdq"
    /\ att.seen[att.header.heap_offset].magic = "heap"
    /\ Inside(att.header.master_queue_offset, att.seen[att.header.master_queue_offset], SIZEOF_QUEUE)
    /\ Inside(att.header.slave_queue_offset, att.seen[att.header.slave_queue_offset], SIZEOF_QUEUE)
    /\ Inside(att.header.heap_offset, att.seen[att.header.heap_offset], SIZEOF_HEAP)

\* C32: the slave's attach fails whenever the header, a magic, or an offset,
\* size or buffer_offset of a queue or of the heap is wrong or outside the
\* mapped segment, for every shmem_size: a client is constructed only on a
\* segment of which nothing is wrong
C32_AttachRejectsBadSegment == att.result = "attached" => SegmentValid

(* The session of the slave: Session::run_loop and the handlers of AvisynthHost *)

\* the commands the master sends in a run of this model
MaxHostCommands == 3

\* the commands Session::run_loop can hold before it takes the front
MaxHostQueue == 2

\* the types of the commands the master sends
HostTypes ==
    {"ACK", "SET_LOG_FILE", "LOAD_AVISYNTH", "NEW_SCRIPT_ENV", "GET_SCRIPT_VAR",
     "SET_SCRIPT_VAR", "EVAL_SCRIPT", "GET_FRAME", "SET_FRAME"}

\* the types of ipc::Value: a clip, a string in the heap, a scalar, and a
\* type the switch of SET_SCRIPT_VAR does not know
ValueTypes == {"CLIP", "STRING", "INT", "junk"}

\* a command in the slave: its type, its transaction id, the block it holds
\* (NULL_OFFSET for none), the clip it names and the type of its value
HostCommand(type, transaction_id, heap_offset, clip_id, value) ==
    [type |-> type, transaction_id |-> transaction_id, heap_offset |-> heap_offset,
     clip_id |-> clip_id, value |-> value]

HostNull == HostCommand("nullptr", INVALID_TRANSACTION, NULL_OFFSET, 0, "none")

\* a command the slave sends in reply
HostReply(type, response_id, heap_offset) ==
    [type |-> type, response_id |-> response_id, heap_offset |-> heap_offset]

\* the session before run_loop takes its first command.  blocks: who has
\* each block of the heap ("command": a command sent to the slave holds it;
\* "reply": a command sent to the master holds it); last, sent, threw: the
\* command run_loop took last, what was sent while it was handled, and the
\* exception that ended run_loop
HostInit ==
    host = [pc |-> "wait", m_queue |-> <<>>, m_exit_flag |-> FALSE, m_library |-> FALSE,
            m_local_clips |-> {}, m_remote_clips |-> {}, m_local_clip_id |-> 0,
            blocks |-> [o \in Offsets |-> "free"], last |-> HostNull, sent |-> <<>>,
            threw |-> "none", received |-> 0]

host_others == <<hvars, qvars, cvars, svars, avars, lvars, att, ev>>

\* the first free block of the heap, NULL_OFFSET when there is none
FirstFree(blocks) ==
    IF \A o \in Offsets : blocks[o] # "free" THEN NULL_OFFSET
    ELSE CHOOSE o \in Offsets :
             blocks[o] = "free" /\ \A p \in Offsets : blocks[p] = "free" => o <= p

\* IPCClient::send_async(command) of the slave: IPCError when the send fails
host_send_async(h, reply, send) ==
    IF h.threw # "none" THEN h
    ELSE IF send = "failed" THEN [h EXCEPT !.threw = "IPCError"]
    ELSE [h EXCEPT !.sent = Append(@, reply)]

\* Session::send_ack(response_id)
host_send_ack(h, response_id, send) ==
    IF response_id = INVALID_TRANSACTION THEN h
    ELSE host_send_async(h, HostReply("ACK", response_id, NULL_OFFSET), send)

\* Session::send_err(response_id) and AvisynthHost::send_err(response_id)
host_send_err(h, response_id, send) ==
    IF response_id = INVALID_TRANSACTION THEN h
    ELSE host_send_async(h, HostReply("ERR", response_id, NULL_OFFSET), send)

\* heap_to_local_str and heap_to_local_frame: the block is released, whether
\* the copy throws or not
heap_to_local(h, off) ==
    IF h.threw # "none" \/ off = NULL_OFFSET THEN h ELSE [h EXCEPT !.blocks[off] = "free"]

\* local_to_heap_str and local_to_heap_frame, then the command that holds
\* the block is sent: IPCHeapFull is an IPCError
host_send_block(h, type, response_id, send) ==
    LET off == FirstFree(h.blocks)
    IN IF h.threw # "none" THEN h
       ELSE IF off = NULL_OFFSET THEN [h EXCEPT !.threw = "IPCError"]
       ELSE host_send_async([h EXCEPT !.blocks[off] = "reply"],
                            HostReply(type, response_id, off), send)

\* check_avs_loaded(c): 0 with the library loaded, else ERR if
\* (c->transaction_id()), and 1
check_avs_loaded(h, c, send) ==
    IF h.m_library THEN [h |-> h, ret |-> 0]
    ELSE [h |-> IF c.transaction_id # 0 THEN host_send_err(h, c.transaction_id, send) ELSE h,
          ret |-> 1]

\* send_avsvalue(response_id, avs_value): nothing without a response id; a
\* clip is entered in m_local_clips under m_local_clip_id++, a string is
\* copied to the heap
send_avsvalue(h, response_id, result, send) ==
    IF h.threw # "none" \/ response_id = INVALID_TRANSACTION THEN h
    ELSE IF result = "CLIP"
    THEN host_send_async([h EXCEPT !.m_local_clips = @ \cup {h.m_local_clip_id},
                                   !.m_local_clip_id = U32(@ + 1)],
                         HostReply("SET_SCRIPT_VAR", response_id, NULL_OFFSET), send)
    ELSE IF result = "STRING" THEN host_send_block(h, "SET_SCRIPT_VAR", response_id, send)
    ELSE host_send_async(h, HostReply("SET_SCRIPT_VAR", response_id, NULL_OFFSET), send)

\* an exception of Avisynth or of the loader leaves the handler
Raise(h) == [h |-> [h EXCEPT !.threw = IF @ = "none" THEN "AvisynthError" ELSE @], ret |-> 1]

\* observe(CommandLoadAvisynth)
observe_load_avisynth(h, c, outcome, send) ==
    IF h.m_library
    THEN [h |-> IF c.transaction_id # 0 THEN host_send_err(h, c.transaction_id, send) ELSE h,
          ret |-> 1]
    ELSE IF outcome = "throws" THEN Raise(h)
    ELSE [h |-> [h EXCEPT !.m_library = TRUE], ret |-> 0]

\* observe(CommandNewScriptEnv)
observe_new_script_env(h, c, outcome, send) ==
    LET l == check_avs_loaded(h, c, send)
    IN IF l.ret # 0 THEN l
       ELSE IF outcome = "throws" THEN Raise(h)
       ELSE [h |-> [h EXCEPT !.m_local_clips = {}, !.m_remote_clips = {}], ret |-> 0]

\* observe(CommandGetScriptVar)
observe_get_script_var(h, c, outcome, result, send) ==
    LET l == check_avs_loaded(h, c, send)
    IN IF l.ret # 0 THEN l
       ELSE IF outcome = "throws" THEN Raise(h)
       ELSE [h |-> send_avsvalue(h, c.transaction_id, result, send), ret |-> 1]

\* observe(CommandSetScriptVar)
observe_set_script_var(h, c, outcome, send) ==
    LET l == check_avs_loaded(h, c, send)
    IN IF l.ret # 0 THEN l
       ELSE IF c.value = "CLIP"
       THEN IF outcome = "throws" THEN Raise(h)
            ELSE [h |-> [h EXCEPT !.m_remote_clips = @ \cup {c.clip_id}], ret |-> 0]
       ELSE IF c.value = "STRING"
       THEN IF outcome = "throws" THEN Raise(heap_to_local(h, c.heap_offset))
            ELSE [h |-> heap_to_local(h, c.heap_offset), ret |-> 0]
       ELSE IF c.value = "junk" \/ outcome = "throws" THEN Raise(h)
       ELSE [h |-> h, ret |-> 0]

\* observe(CommandEvalScript)
observe_eval_script(h, c, outcome, result, send) ==
    LET l == check_avs_loaded(h, c, send)
        h1 == heap_to_local(h, c.heap_offset)
    IN IF l.ret # 0 THEN l
       ELSE IF outcome = "throws" THEN Raise(h1)
       ELSE [h |-> send_avsvalue(h1, c.transaction_id, result, send), ret |-> 1]

\* VirtualClip::GetFrame of a clip of the master that the script reads: the
\* SET_FRAME that send_sync returns is copied and released, or names another
\* frame and ThrowError is called
virtual_get_frame(h, outcome) ==
    LET off == FirstFree(h.blocks)
    IN IF outcome \notin {"remote", "remote_wrong_frame"} \/ off = NULL_OFFSET THEN h
       ELSE IF outcome = "remote" THEN heap_to_local([h EXCEPT !.blocks[off] = "command"], off)
       ELSE [h EXCEPT !.blocks[off] = "command", !.threw = "AvisynthError"]

\* observe(CommandGetFrame)
observe_get_frame(h, c, outcome, send) ==
    LET l == check_avs_loaded(h, c, send)
        h1 == virtual_get_frame(h, outcome)
    IN IF l.ret # 0 THEN l
       ELSE IF c.clip_id \notin h.m_local_clips
       THEN [h |-> host_send_err(h, c.transaction_id, send), ret |-> 1]
       ELSE IF outcome = "throws" THEN Raise(h)
       ELSE [h |-> host_send_block(h1, "SET_FRAME", c.transaction_id, send), ret |-> 1]

\* observe(CommandSetFrame)
observe_set_frame(h, c, outcome, send) ==
    LET l == check_avs_loaded(h, c, send)
    IN IF l.ret # 0 THEN l
       ELSE IF c.clip_id \notin h.m_remote_clips
       THEN [h |-> host_send_err(h, c.transaction_id, send), ret |-> 1]
       ELSE IF outcome = "throws" THEN Raise(heap_to_local(h, c.heap_offset))
       ELSE [h |-> heap_to_local(h, c.heap_offset), ret |-> 0]

\* Session::dispatch(c): ACK, ERR and SET_LOG_FILE return 0
host_dispatch(h, c, outcome, result, send) ==
    CASE c.type = "LOAD_AVISYNTH" -> observe_load_avisynth(h, c, outcome, send)
      [] c.type = "NEW_SCRIPT_ENV" -> observe_new_script_env(h, c, outcome, send)
      [] c.type = "GET_SCRIPT_VAR" -> observe_get_script_var(h, c, outcome, result, send)
      [] c.type = "SET_SCRIPT_VAR" -> observe_set_script_var(h, c, outcome, send)
      [] c.type = "EVAL_SCRIPT" -> observe_eval_script(h, c, outcome, result, send)
      [] c.type = "GET_FRAME" -> observe_get_frame(h, c, outcome, send)
      [] c.type = "SET_FRAME" -> observe_set_frame(h, c, outcome, send)
      [] OTHER -> [h |-> h, ret |-> 0]

\* the body of the loop of run_loop for the command c: ACK when dispatch
\* returns 0 and c has a transaction id; IPCError is thrown on, another
\* exception is answered with send_err
run_loop_body(h, c, outcome, result, send) ==
    LET r == host_dispatch(h, c, outcome, result, send)
    IN IF r.h.threw = "none"
       THEN IF r.ret = 0 /\ c.transaction_id # INVALID_TRANSACTION
            THEN host_send_ack(r.h, c.transaction_id, send) ELSE r.h
       ELSE IF r.h.threw = "IPCError" THEN r.h
       ELSE host_send_err([r.h EXCEPT !.threw = "none"], c.transaction_id, send)

\* the outcomes and results a handler of the type can have
HostOutcomes(h, c) ==
    {"ok"} \cup
    (IF c.type \in {"ACK", "SET_LOG_FILE"} \/ (c.type # "LOAD_AVISYNTH" /\ ~h.m_library)
        \/ (c.type = "LOAD_AVISYNTH" /\ h.m_library)
     THEN {} ELSE {"throws"}) \cup
    (IF c.type = "GET_FRAME" /\ h.m_library /\ c.clip_id \in h.m_local_clips
        /\ h.m_remote_clips # {}
     THEN {"remote", "remote_wrong_frame"} ELSE {})

HostResults(h, c) ==
    IF c.type \in {"GET_SCRIPT_VAR", "EVAL_SCRIPT"} /\ h.m_library
       /\ c.transaction_id # INVALID_TRANSACTION
    THEN {"CLIP", "STRING", "INT"} ELSE {"INT"}

\* the master sends a command, a block of the heap in it when its type holds
\* one, and the receive thread of the slave calls queue_command with it
HostQueueCommand(type, transaction_id, clip_id, value) ==
    /\ host.pc = "wait" /\ ~host.m_exit_flag
    /\ host.received < MaxHostCommands
    /\ Len(host.m_queue) < MaxHostQueue
    /\ (type # "SET_SCRIPT_VAR") = (value = "none")
    /\ type \notin {"GET_FRAME", "SET_FRAME"} /\ value # "CLIP" => clip_id = 0
    /\ LET holds == type \in {"EVAL_SCRIPT", "SET_FRAME"} \/ value = "STRING"
           off == IF holds THEN FirstFree(host.blocks) ELSE NULL_OFFSET
       IN /\ holds => off # NULL_OFFSET
          /\ host' = [host EXCEPT
                 !.m_queue = Append(@, HostCommand(type, transaction_id, off, clip_id, value)),
                 !.blocks = IF holds THEN [@ EXCEPT ![off] = "command"] ELSE @,
                 !.received = @ + 1]
    /\ UNCHANGED host_others

\* the connection ends: queue_command(nullptr)
HostBrokenConnection ==
    /\ host.pc = "wait" /\ ~host.m_exit_flag
    /\ host' = [host EXCEPT !.m_exit_flag = TRUE]
    /\ UNCHANGED host_others

\* run_loop wakes with m_exit_flag set: break
HostExit ==
    /\ host.pc = "wait" /\ host.m_exit_flag
    /\ host' = [host EXCEPT !.pc = "ended"]
    /\ UNCHANGED host_others

\* run_loop wakes with a command in m_queue: the front is taken and handled
HostRunLoop(outcome, result, send) ==
    /\ host.pc = "wait" /\ ~host.m_exit_flag
    /\ host.m_queue # <<>>
    /\ LET c == Head(host.m_queue)
           h == [host EXCEPT !.m_queue = Tail(@), !.last = c, !.sent = <<>>]
           h1 == run_loop_body(h, c, outcome, result, send)
       IN /\ outcome \in HostOutcomes(host, c)
          /\ result \in HostResults(host, c)
          /\ host' = IF h1.threw = "IPCError" THEN [h1 EXCEPT !.pc = "ended"] ELSE h1
    /\ UNCHANGED host_others

\* the master releases a block it got in a reply
HostMasterFree(o) ==
    /\ host.blocks[o] = "reply"
    /\ host' = [host EXCEPT !.blocks[o] = "free"]
    /\ UNCHANGED host_others

(* Properties of the session *)

\* a command of m_queue holds the block o
HeldInQueue(o) == \E i \in 1..Len(host.m_queue) : host.m_queue[i].heap_offset = o

\* C34: every block whose ownership a command transferred to the slave is
\* freed by the slave on every path of its handler, the rejections included:
\* while the session runs, a block of a command is held by a command that
\* run_loop has still to take
C34_TransferredBlocksFreed ==
    host.threw = "none" =>
        \A o \in Offsets : host.blocks[o] = "command" => HeldInQueue(o)

\* C35: every command run_loop took that has a transaction id, the id 0
\* included, was answered with exactly one command whose response_id is that
\* id, and unless IPCError was thrown run_loop goes on
C35_AnsweredOnce ==
    host.last.type # "nullptr" /\ host.last.transaction_id # INVALID_TRANSACTION
        /\ host.threw # "IPCError" =>
        /\ Len(host.sent) = 1
        /\ host.sent[1].response_id = host.last.transaction_id
        /\ host.pc = "wait"

(* A queue and its event: the writers in send_async, the reader in recv_thread_func *)

\* the frames the writers send in a run of this model
MaxEvSends == 3

\* the threads that call send_async
EvWriters == {1, 2}

\* the sizes of their frames, in cells
EvSizes == {1, 2}

\* the queue is empty and its event not set; the writers are outside
\* send_async and the reader is in wait_remote_process_write.  written: the
\* frames queue_write has copied; got: the frames the reader has dispatched
EventInit ==
    ev = [queue |-> [QueueInitial EXCEPT !.buf = [i \in 0..(QueueCapacity - 1) |-> ZeroCell]],
          event |-> FALSE,
          w |-> [t \in EvWriters |-> [pc |-> "idle", size |-> 0, sn |-> 0]],
          r |-> "wait", sends |-> 0, written |-> {}, got |-> <<>>,
          error |-> "none", unsignalled |-> FALSE]

ev_others == <<hvars, qvars, cvars, svars, avars, lvars, att, host>>

\* neither an assert nor a copy outside the ring has stopped a process, and
\* the reader has not left its loop
EvRunning == ev.error = "none"

\* send_async(command) up to its try block: the command is serialized
EvSend(t, size) ==
    /\ EvRunning /\ ev.w[t].pc = "idle"
    /\ ev.sends < MaxEvSends
    /\ ev' = [ev EXCEPT !.w[t] = [pc |-> "write", size |-> size, sn |-> ev.sends + 1],
                        !.sends = @ + 1]
    /\ UNCHANGED ev_others

\* queue_write under the MutexGuard of the queue.  A frame that does not fit
\* fails the assert of queue_write, or with NDEBUG is written
EvWrite(t, ndebug) ==
    /\ EvRunning /\ ev.w[t].pc = "write"
    /\ LET fits == ev.w[t].size <= U32(QueueCapacity - ev.queue.buffer_usage)
           frame == Serialize(ev.w[t].size, INVALID_TRANSACTION, ev.w[t].sn)
       IN IF fits \/ ndebug
          THEN ev' = [ev EXCEPT !.queue = queue_write(ev.queue, frame).queue,
                                !.written = @ \cup {ev.w[t].sn},
                                !.w[t].pc = "signal"]
          ELSE ev' = [ev EXCEPT !.error = "assert"]
    /\ UNCHANGED ev_others

\* SetEvent(send_event()) once the guard is destroyed; when it fails
\* trap_error throws and the frame stays written
EvSignal(t, set) ==
    /\ EvRunning /\ ev.w[t].pc = "signal"
    /\ ev' = [ev EXCEPT !.event = IF set THEN TRUE ELSE @,
                        !.unsignalled = IF set THEN @ ELSE TRUE,
                        !.w[t] = [pc |-> "idle", size |-> 0, sn |-> 0]]
    /\ UNCHANGED ev_others

\* wait_remote_process_write returns for the event, which is reset
EvWait ==
    /\ EvRunning /\ ev.r = "wait"
    /\ ev.event
    /\ ev' = [ev EXCEPT !.event = FALSE, !.r = "drain"]
    /\ UNCHANGED ev_others

\* queue_read of buffer_usage bytes under the MutexGuard of the queue, then
\* the parse loop dispatches the frames: an exception ends the receive loop
EvDrain ==
    /\ EvRunning /\ ev.r = "drain"
    /\ IF ReadInBounds(ev.queue)
       THEN LET d == queue_read(ev.queue)
                p == ParseAll(d.buf)
            IN ev' = [ev EXCEPT !.queue = d.queue, !.got = @ \o p.got, !.error = p.err,
                                !.r = IF p.err = "none" THEN "wait" ELSE "exit"]
       ELSE ev' = [ev EXCEPT !.error = "wild"]
    /\ UNCHANGED ev_others

(* Properties of the queue and its event *)

\* the frames whose envelope is among the unread cells of the ring
UnreadFrames ==
    LET q == ev.queue
        n == IF q.buffer_usage > QueueCapacity THEN QueueCapacity ELSE q.buffer_usage
        cells == {q.buf[(q.read_pos + i) % QueueCapacity] : i \in 0..(n - 1)}
    IN {c.sn : c \in {x \in cells : x.magic = "cmdx"}}

\* the reader will drain once more: the event is set, a writer is about to
\* set it, or the reader is between its wait and its drain
DrainPending ==
    ev.event \/ ev.r = "drain" \/ \E t \in EvWriters : ev.w[t].pc = "signal"

\* the frames the reader has dispatched
Got == {ev.got[i] : i \in 1..Len(ev.got)}

\* C40: no frame that send_async wrote is stranded: while the processes run
\* and every SetEvent succeeded, a frame that was written and is not yet
\* dispatched is among the unread cells of the ring and a drain is pending
C40_NoFrameStranded ==
    EvRunning /\ ~ev.unsignalled =>
        \A sn \in ev.written \ Got : sn \in UnreadFrames /\ DrainPending

(* Specifications *)

MiniInit == AttachIdle /\ HostInit /\ EventInit

HeapNext ==
    \/ \E n \in AllocSizes : Allocate(n)
    \/ \E n \in AllocSizes : AllocateFail(n)
    \/ \E b \in live : Deallocate(b)

HeapSpecInit == HeapInit /\ QueueInit /\ ClientInit /\ SyncInit /\ RunInit /\ LockInit /\ MiniInit

HeapSpec == HeapSpecInit /\ [][HeapNext]_vars

QueueNext ==
    \/ \E msg \in Messages : QueueWrite(msg)
    \/ QueueRead

QueueSpecInit == HeapIdle /\ QueueInit /\ ClientInit /\ SyncInit /\ RunInit /\ LockInit /\ MiniInit

QueueSpec == QueueSpecInit /\ [][QueueNext]_vars

\* the client with one application thread and its receive thread, sending
\* commands that are an envelope only
ClientNext ==
    \/ \E cb \in BOOLEAN, sync \in BOOLEAN :
          hist.sends < MaxClientSends /\ SendAsync(ClientThread, cb, sync, COMMAND_SIZE)
    \/ next_transaction_id(ClientThread)
    \/ SendAsyncStored(ClientThread)
    \/ \E relock \in RelockOutcomes : SendAsyncKilled(ClientThread, relock)
    \/ SendAsyncInsert(ClientThread)
    \/ \E outcome \in {"sent", "mutex", "signal"} : SendAsyncWrite(ClientThread, outcome)
    \/ SendAsyncCatch(ClientThread)
    \/ SendSyncWait(ClientThread)
    \/ Start
    \/ Stop(ClientThread)
    \/ StopNested(ClientThread)
    \/ StopJoin(ClientThread)
    \/ RecvTop
    \/ \E n \in 0..MaxWakeCells : RecvWake(n)
    \/ RecvRemoteExit
    \/ RecvParsed
    \/ \E cell \in PeerCells : RecvParse(cell)
    \/ RecvDispatch
    \/ RecvExit

\* the application threads sending to a peer that drains the send queue
SendNext ==
    \/ \E t \in Threads, cb \in BOOLEAN, size \in SendSizes : SendAsync(t, cb, FALSE, size)
    \/ \E t \in Threads : next_transaction_id(t)
    \/ \E t \in Threads : SendAsyncInsert(t)
    \/ \E t \in Threads, outcome \in {"sent", "mutex", "signal"} : SendAsyncWrite(t, outcome)
    \/ \E t \in Threads, ndebug \in BOOLEAN : SendAsyncOverflow(t, ndebug)
    \/ \E t \in Threads : SendAsyncCatch(t)
    \/ PeerDrain

\* the client with one application thread that sends with callbacks, and its
\* receive thread parsing drains of several frames
DrainNext ==
    \/ \E cb \in BOOLEAN :
          hist.sends < MaxClientSends /\ SendAsync(ClientThread, cb, FALSE, COMMAND_SIZE)
    \/ next_transaction_id(ClientThread)
    \/ SendAsyncStored(ClientThread)
    \/ \E relock \in RelockOutcomes : SendAsyncKilled(ClientThread, relock)
    \/ SendAsyncInsert(ClientThread)
    \/ \E outcome \in {"sent", "mutex", "signal"} : SendAsyncWrite(ClientThread, outcome)
    \/ SendAsyncCatch(ClientThread)
    \/ Start
    \/ StopNested(ClientThread)
    \/ StopJoin(ClientThread)
    \/ RecvTop
    \/ \E n \in 0..MaxDrainCells : RecvWake(n)
    \/ RecvRemoteExit
    \/ RecvParsed
    \/ \E cell \in DrainCells : RecvParse(cell)
    \/ RecvDispatch
    \/ RecvExit

DrainSpecInit == HeapIdle /\ FrameQueueInit /\ ClientInit /\ SyncInit /\ RunInit /\ LockInit /\ MiniInit

DrainSpec == DrainSpecInit /\ [][DrainNext]_vars

ClientSpecInit == HeapIdle /\ FrameQueueInit /\ ClientInit /\ SyncInit /\ RunInit /\ LockInit /\ MiniInit

ClientSpec == ClientSpecInit /\ [][ClientNext]_vars

SendSpecInit == HeapIdle /\ FrameQueueInit /\ ClientInit /\ SyncInit /\ RunInit /\ LockInit /\ MiniInit

SendSpec == SendSpecInit /\ [][SendNext]_vars

\* one thread in send_sync and the receive thread in its callback
SyncNext ==
    \/ SyncCall
    \/ SyncPred
    \/ SyncPark
    \/ SyncSpurious
    \/ SyncRelock
    \/ \E arg \in SyncArgs : CbInvoke(arg)
    \/ CbStore
    \/ CbSetCalled
    \/ CbNotify
    \/ \E outcome \in {"none", "crash"} : CbNotifyDestroyed(outcome)

SyncSpecInit == HeapIdle /\ FrameQueueInit /\ ClientInit /\ SyncInit /\ RunInit /\ LockInit /\ MiniInit

SyncSpec == SyncSpecInit /\ [][SyncNext]_vars

\* the thread in runloop, the receive thread in the callbacks of AVSProxy,
\* and the peer
RunNext ==
    \/ RunloopCall
    \/ \E outcome \in {"sent", "failed"} : RunloopEnter(outcome)
    \/ \E outcome \in {"sent", "failed"} : RunloopWake(outcome)
    \/ \E outcome \in {"sent", "failed"} : RunloopRelock(outcome)
    \/ \E outcome \in {"sent", "failed"}, svc \in {"ok", "get_frame", "bad_alloc"} :
          RunloopService(outcome, svc)
    \/ Fatal
    \/ FatalJoin
    \/ \E type \in InboundTypes, response_id \in 0..(IdSpace - 1),
          has_tid \in BOOLEAN, clip_id \in ClipIds :
          RecvDeliver(type, response_id, has_tid, clip_id)
    \/ \E outcome \in {"sent", "failed"} : RecvCompare(outcome)
    \/ RecvStore
    \/ \E null_call \in {"returns", "crash"} : RecvExit_(null_call)
    \/ \E o \in Offsets : PeerFree(o)

RunSpecInit == HeapIdle /\ FrameQueueInit /\ ClientInit /\ SyncInit /\ RunInit /\ LockInit /\ MiniInit

RunSpec == RunSpecInit /\ [][RunNext]_vars

\* the thread in runloop and the receive thread of the master, one lock or
\* one guarded block at a time
LockNext ==
    \/ \E t \in LockThreads : Acquire(t)
    \/ \E t \in LockThreads : Release(t)
    \/ LockRunloopCall
    \/ \E t \in LockThreads : LockRejectCommands(t)
    \/ LockRunloopSend
    \/ \E t \in LockThreads : LockSendAsync(t)
    \/ \E t \in LockThreads : LockJoin(t)
    \/ LockRethrow
    \/ LockFatal
    \/ LockFatalDone
    \/ LockWait
    \/ LockParked
    \/ LockInner
    \/ \E svc \in {"ok", "bad_alloc"} : LockMakeResponse(svc)
    \/ LockThrow
    \/ LockSendAck
    \/ LockRecvTop
    \/ \E type \in {"GET_FRAME", "SET_FRAME"}, has_tid \in BOOLEAN,
          response \in 0..(MaxLockCalls + 1) :
          LockRecvCommand(LockCommand(type, has_tid, response, type = "SET_FRAME"))
    \/ \E remote_exit \in BOOLEAN : LockRecvEnd(remote_exit)
    \/ LockDispatch
    \/ LockRoute
    \/ LockInvoke
    \/ \E t \in LockThreads, null_call \in {"none", "crash", "returns"} :
          LockRunloopCallback(t, null_call)
    \/ \E t \in LockThreads : LockStore(t)
    \/ LockRecvCallback
    \/ LockExitCallbacks
    \/ LockSetKill

LockSpecInit == HeapIdle /\ FrameQueueInit /\ ClientInit /\ SyncInit /\ RunInit /\ LockInit /\ MiniInit

LockSpec == LockSpecInit /\ [][LockNext]_vars

\* the constructor of the slave's client on a mapping of any content
AttachNext ==
    \/ AttachOpen
    \/ AttachHeader
    \/ \E s \in Structs, outcome \in {"read", "fault"} : AttachMasterQueue(s, outcome)
    \/ \E s \in Structs, outcome \in {"read", "fault"} : AttachSlaveQueue(s, outcome)
    \/ \E s \in Structs, outcome \in {"read", "fault"} : AttachHeap(s, outcome)

AttachSpecInit ==
    HeapIdle /\ FrameQueueInit /\ ClientInit /\ SyncInit /\ RunInit /\ LockInit /\ AttachInit
    /\ HostInit /\ EventInit

AttachSpec == AttachSpecInit /\ [][AttachNext]_vars

\* the master's commands, run_loop of the slave, and the master releasing
\* what it got
HostNext ==
    \/ \E type \in HostTypes, transaction_id \in 0..(IdSpace - 1), clip_id \in ClipIds,
          value \in ValueTypes \cup {"none"} :
          HostQueueCommand(type, transaction_id, clip_id, value)
    \/ HostBrokenConnection
    \/ HostExit
    \/ \E outcome \in {"ok", "throws", "remote", "remote_wrong_frame"},
          result \in {"CLIP", "STRING", "INT"}, send \in {"sent", "failed"} :
          HostRunLoop(outcome, result, send)
    \/ \E o \in Offsets : HostMasterFree(o)

HostSpecInit ==
    HeapIdle /\ FrameQueueInit /\ ClientInit /\ SyncInit /\ RunInit /\ LockInit /\ MiniInit

HostSpec == HostSpecInit /\ [][HostNext]_vars

\* the writers of a queue and its reader
EventNext ==
    \/ \E t \in EvWriters, size \in EvSizes : EvSend(t, size)
    \/ \E t \in EvWriters, ndebug \in BOOLEAN : EvWrite(t, ndebug)
    \/ \E t \in EvWriters, set \in BOOLEAN : EvSignal(t, set)
    \/ EvWait
    \/ EvDrain

EventSpecInit ==
    HeapIdle /\ FrameQueueInit /\ ClientInit /\ SyncInit /\ RunInit /\ LockInit /\ MiniInit

EventSpec == EventSpecInit /\ [][EventNext]_vars

====
